---------------------------- MODULE Spec2Model ----------------------------
(***************************************************************************)
(* A model of the ZeroTier engine-host bridge (rust-zerotier-core Node)    *)
(* and of the service control loop (rust-zerotier-service run).            *)
(*                                                                         *)
(* Three specifications share the variables:                               *)
(*   SpecNode  join / leave / drop of a Node and the buffer hand-off,      *)
(*   SpecTick  Node::process_background_tasks as a function of its inputs, *)
(*   Spec      the outer/inner loop of run() with socket reconciliation.   *)
(***************************************************************************)
EXTENDS Integers, Sequences, FiniteSets, TLC

VARIABLES
    \* ---- Node (node.rs) ----
    networks_by_id,   \* Node.networks_by_id: nwid -> raw pointer (NullPtr = no entry)
    next_handle,      \* the next pointer Box::into_raw will return
    released,         \* per pointer: how many times Box::from_raw ran on it
    capi,             \* the engine instance: "live" | "deleted"
    node_pc,          \* "ready" | "drop_loop" | "dropped"
    drop_nwids,       \* Drop: the ids collected into nwids and not yet deleted
    last_call,        \* history: per nwid the last join/leave call and its outcome
    last_op,          \* history: the last Node call made
    drop_registered,  \* history: the pointers registered when drop began
    drop_releases,    \* history: Box::from_raw calls made by drop
    buf_state,        \* per Buffer: "owned" | "transferred" | "released"
    buf_handed,       \* per Buffer: times its zt_core_buf was passed to the engine
    buf_dropped,      \* per Buffer: times Buffer::drop ran on the caller's side
    last_rc,          \* the ResultCode the last Node call returned
    \* ---- Node::process_background_tasks as a function ----
    overflow_checks,  \* build profile: i64 subtraction panics on overflow, or wraps
    bt_status,        \* "idle" | "returned" | "panicked"
    bt_now,           \* current_time
    bt_deadline,      \* next_task_deadline as the engine wrote it back
    bt_delay,         \* the returned delay (0 while nothing was returned)
    \* ---- run() (service.rs) ----
    pc,                           \* position of run(): see the actions below
    run,                          \* Service.run
    online,                       \* Service.online
    service_local_config,         \* Service._local_config: the current snapshot
    local_config,                 \* run's local_config: the snapshot the loop works from
    udp_sockets,                  \* run's udp_sockets: bound address -> device it was opened on
    system_addrs,                 \* the pass's system_addrs: desired address -> device
    loop_delay,                   \* run's loop_delay
    clock,                        \* ms_since_epoch()
    now,                          \* run's now
    last_checked_config,          \* run's last_checked_config
    primary_port_bind_failure,    \* the pass's primary_port_bind_failure
    secondary_port_bind_failure,  \* the pass's secondary_port_bind_failure
    warp_server,                  \* the control listener: "none" | "running" | "stopped"
    live_listeners,               \* control listener tasks bound and not yet ended
    process_exit_value,           \* run's process_exit_value
    log_max_size,                 \* Log: the maximum size in force
    log_stderr,                   \* Log: the log_to_stderr setting in force
    \* history of the reconciliation passes
    break_at,                     \* which break left a loop last ("none" before any)
    cleared_at,                   \* where the loop was when the run flag was cleared ("none" while set)
    node_new_call,                \* Node::new as run() called it: engine status, instance, result
    config_change,                \* what the config check has just observed ("none" once the loop has moved on)
    read_failed,                  \* the config check has just had read_local_conf fail (FALSE once the loop has moved on)
    fresh,                        \* the pass has just run (the loop has not moved on)
    reconciled,                   \* a reconciliation pass has run
    last_ifaces,                  \* the interface enumeration of the last pass
    last_cfg,                     \* the local_config of the last pass
    same_inputs,                  \* the last pass had the enumeration and config of the one before
    prev_unbound,                 \* desired addresses left unbound by the pass before the last
    opened,                       \* addresses the last pass opened a socket for
    closed,                       \* addresses the last pass closed the socket of
    attempted,                     \* addresses the last pass called FastUDPSocket::new for
    \* history of the waits and ticks
    waits_since_tick,             \* wait steps begun since process_background_tasks last returned (or since the start): 0, 1, or 2 for more
    prev_check,                   \* history: now of the last config-check pass of the process, 0 before the first
    sel_ready,                    \* the branches of the select! found ready in the wait under way; {} when none has been polled
    \* ---- Service._local_config: Arc<Mutex<Arc<LocalConfig>>> (service.rs) ----
    arc_state,        \* per LocalConfig allocation: "unalloc" | "live" | "freed"
    arc_refs,         \* per allocation: the strong count of its Arc
    arc_val,          \* per allocation: the fields of the LocalConfig in it
    mutex_ptr,        \* the Arc inside the Mutex (the current snapshot)
    mutex_owner,      \* who holds the Mutex: 0 nobody, a reader, or Writer
    installs,         \* set_local_config calls that have allocated a snapshot
    rd_pc,            \* per reader: position in local_config() and in its use of the snapshot
    rd_ptr,           \* per reader: the Arc it obtained (NoArc: none)
    rd_seen,          \* per reader: the fields read so far from its snapshot
    wr_pc,            \* set_local_config: "idle" | "allocated" | "locked" | "stored"
    wr_new,           \* set_local_config: the Arc made from new_lc
    \* ---- Node calls in steps, and the engine's callback thread (node.rs) ----
    engine_uptr,      \* the engine: per joined network the user pointer ZT_Node_join gave it
    api_pc,           \* the thread in join/leave: "idle" | "join_inserted" | "join_called" | "leave_deleted" | "leave_callback"
    api_nwid,         \* its nwid
    api_nptr,         \* join: the pointer Box::into_raw returned
    api_rc,           \* join: what ZT_Node_join returned
    cb_pc,            \* the callback thread: "idle" | "handler"
    cb_kind,          \* "frame" | "config": the handler it is in
    cb_nwid,          \* the nwid of the callback
    cb_nptr,          \* the handle behind the &Arc<N> the handler was given
    cb_registered,    \* history: nwid had a registry entry when the handler was invoked
    \* ---- the engine's other callbacks (node.rs) and the host's store ----
    store_objs,       \* Store: the object types state_put has stored
    dp_tick,          \* flips at every callback the engine makes
    dp_last,          \* history: the last callback: function, raw code, handler invoked, result, *obj_data, out-pointers non-null
    \* ---- Service::path_lookup (service.rs) ----
    virtual_,         \* the virtual_ map of the current snapshot: address -> try_ list
    pl_pc,            \* path_lookup: "idle" | "holding" | "returned"
    pl_address,       \* its address argument
    pl_lc,            \* the virtual_ map of the snapshot local_config() gave it
    pl_result,        \* what it returned: {} is None, {a} is Some(a)
    \* ---- zt_state_get_function as a function (node.rs) ----
    sg_args,          \* the arguments, with what the handler answers and whether malloc gives memory
    sg_ret,           \* status "idle" | "returned", and what the call did
    \* ---- the classification loop of a pass as a function (service.rs) ----
    cl_args,          \* udp_sockets' keys in the order iterated, and local_config
    cl_ret,           \* status "idle" | "returned", and the two flags after the loop
    \* ---- Node::leave on a second thread (node.rs) ----
    lv_pc,            \* the thread in leave: "idle" | "leave_deleted"
    lv_nwid,          \* its nwid (kept after the return: the nwid of its last leave)
    lv_calls,         \* history: leave calls begun on it: 0, 1, or 2 for more
    \* ---- getifaddrs::for_each_address (getifaddrs.rs) ----
    ifa_list,         \* the list getifaddrs returns: per entry the kind of ifa_addr and whether ifa_name is UTF-8
    ifa_pc,           \* "idle" | "loop" | "done"
    ifa_i,            \* i: the index of the entry i points at, Len + 1 for null
    ifa_freed,        \* freeifaddrs has been called
    ifa_visits,       \* history: per entry, loop iterations begun at it: 0, 1, or 2 for more
    ifa_f             \* history: per entry, calls of f made for it

nodeVars == <<networks_by_id, next_handle, released, capi, node_pc, drop_nwids,
              last_call, last_op, drop_registered, drop_releases,
              buf_state, buf_handed, buf_dropped, last_rc>>
tickVars == <<overflow_checks, bt_status, bt_now, bt_deadline, bt_delay>>
loopVars == <<pc, run, online, service_local_config, local_config, udp_sockets,
              system_addrs, loop_delay, clock, now, last_checked_config,
              primary_port_bind_failure, secondary_port_bind_failure, warp_server, live_listeners,
              process_exit_value, log_max_size, log_stderr>>
passVars == <<break_at, cleared_at, node_new_call, config_change, read_failed, fresh, reconciled, last_ifaces, last_cfg, same_inputs, prev_unbound,
              opened, closed, attempted>>
timeVars == <<waits_since_tick, prev_check, sel_ready>>
serviceVars == <<loopVars, passVars, timeVars>>
cfgVars == <<arc_state, arc_refs, arc_val, mutex_ptr, mutex_owner, installs,
             rd_pc, rd_ptr, rd_seen, wr_pc, wr_new>>
raceVars == <<engine_uptr, api_pc, api_nwid, api_nptr, api_rc,
              cb_pc, cb_kind, cb_nwid, cb_nptr, cb_registered>>
dispatchVars == <<store_objs, dp_tick, dp_last>>
lookupVars == <<virtual_, pl_pc, pl_address, pl_lc, pl_result>>
stateGetVars == <<sg_args, sg_ret>>
classifyVars == <<cl_args, cl_ret>>
leaveVars == <<lv_pc, lv_nwid, lv_calls>>
ifaVars == <<ifa_list, ifa_pc, ifa_i, ifa_freed, ifa_visits, ifa_f>>
laterVars == <<leaveVars, ifaVars>>
moreVars == <<lookupVars, stateGetVars, classifyVars, laterVars>>
concVars == <<cfgVars, raceVars, dispatchVars, moreVars>>
vars == <<nodeVars, tickVars, serviceVars, concVars>>

---------------------------------------------------------------------------
\* Bounds of the model.
MaxNetIds == 2
MaxHandles == 3
MaxBuffers == 1
IntBits == 10
NowMax == 2

\* Program constants.
NullPtr == 0
ZT_RESULT_OK == 0
NODE_BACKGROUND_TASKS_MAX_INTERVAL == 250

NetIds == 1..MaxNetIds
Handles == 1..MaxHandles
Buffers == 1..MaxBuffers

\* The engine's raw result codes used as inputs: OK, a fatal one, a non-fatal
\* one, and one no ResultCode variant has.
RawResultCodes == {0, 1, 1000, 77}

\* ResultCode::from_i32: the variant of a raw code, "None" when there is none.
ResultCode_from_i32(rc) ==
    CASE rc = 0 -> "Ok"
      [] rc = 1 -> "FatalErrorOutOfMemory"
      [] rc = 1000 -> "ErrorNetworkNotFound"
      [] OTHER -> "None"

\* ResultCode::from_i32(rc).unwrap_or(ResultCode::ErrorInternalNonFatal)
ResultCode_or_internal(rc) ==
    IF ResultCode_from_i32(rc) = "None" THEN "ErrorInternalNonFatal"
    ELSE ResultCode_from_i32(rc)

---------------------------------------------------------------------------
\* Node::delete_network_uptr: remove the entry and, if there was one, release
\* the box behind it. Gives the registry and the release counts afterwards.
delete_network_uptr_leaking(reg, rel, nwid) ==
    [reg |-> [reg EXCEPT ![nwid] = NullPtr], rel |-> rel]

delete_network_uptr(reg, rel, nwid) ==
    LET nptr == reg[nwid]
    IN  [reg |-> [reg EXCEPT ![nwid] = NullPtr],
         rel |-> IF nptr # NullPtr THEN [rel EXCEPT ![nptr] = @ + 1] ELSE rel]

\* Node::join with the rollback left out (mutant).
join_no_rollback(nwid, rc) ==
    /\ node_pc = "ready"
    /\ next_handle <= MaxHandles
    /\ networks_by_id' = [networks_by_id EXCEPT ![nwid] = next_handle]
    /\ next_handle' = next_handle + 1
    /\ last_rc' = ResultCode_or_internal(rc)
    /\ last_call' = [last_call EXCEPT ![nwid] =
                        IF rc = ZT_RESULT_OK THEN "join_ok" ELSE "join_failed"]
    /\ last_op' = [op |-> "join", nwid |-> nwid]
    /\ UNCHANGED <<released, capi, node_pc, drop_nwids, drop_registered,
                   drop_releases, buf_state, buf_handed, buf_dropped>>
    /\ UNCHANGED <<tickVars, serviceVars, concVars>>

\* Node::join: box a clone of the Arc, insert it (replacing any entry), call
\* the engine, and on any result but OK delete the entry again.
join(nwid, rc) ==
    /\ node_pc = "ready"
    /\ next_handle <= MaxHandles
    /\ LET nptr == next_handle
           inserted == [networks_by_id EXCEPT ![nwid] = nptr]
           after == IF rc # ZT_RESULT_OK
                    THEN delete_network_uptr(inserted, released, nwid)
                    ELSE [reg |-> inserted, rel |-> released]
       IN  /\ networks_by_id' = after.reg
           /\ released' = after.rel
    /\ next_handle' = next_handle + 1
    /\ last_rc' = ResultCode_or_internal(rc)
    /\ last_call' = [last_call EXCEPT ![nwid] =
                        IF rc = ZT_RESULT_OK THEN "join_ok" ELSE "join_failed"]
    /\ last_op' = [op |-> "join", nwid |-> nwid]
    /\ UNCHANGED <<capi, node_pc, drop_nwids, drop_registered, drop_releases,
                   buf_state, buf_handed, buf_dropped>>
    /\ UNCHANGED <<tickVars, serviceVars, concVars>>

\* Node::leave: delete the entry, then ask the engine to leave.
leave(nwid, rc) ==
    /\ node_pc = "ready"
    /\ LET after == delete_network_uptr(networks_by_id, released, nwid)
       IN  /\ networks_by_id' = after.reg
           /\ released' = after.rel
    /\ last_rc' = ResultCode_or_internal(rc)
    /\ last_call' = [last_call EXCEPT ![nwid] = "leave"]
    /\ last_op' = [op |-> "leave", nwid |-> nwid]
    /\ UNCHANGED <<next_handle, capi, node_pc, drop_nwids, drop_registered,
                   drop_releases, buf_state, buf_handed, buf_dropped>>
    /\ UNCHANGED <<tickVars, serviceVars, concVars>>

\* The ids with an entry, and the pointers held.
RegisteredIds(reg) == {n \in NetIds : reg[n] # NullPtr}
RegisteredPtrs(reg) == {reg[n] : n \in RegisteredIds(reg)}

\* The sequences listing each element of S once (HashMap iteration order is
\* unspecified).
Orderings(S) ==
    {s \in [1..Cardinality(S) -> S] : \A i, j \in 1..Cardinality(S) : s[i] = s[j] => i = j}

\* Drop for Node, first loop: collect the keys of networks_by_id into nwids.
DropCollect ==
    /\ node_pc = "ready"
    /\ api_pc = "idle"
    /\ \E order \in Orderings(RegisteredIds(networks_by_id)) : drop_nwids' = order
    /\ node_pc' = "drop_loop"
    /\ drop_registered' = RegisteredPtrs(networks_by_id)
    /\ drop_releases' = 0
    /\ last_op' = [op |-> "drop", nwid |-> 0]
    /\ UNCHANGED <<networks_by_id, next_handle, released, capi, last_call,
                   buf_state, buf_handed, buf_dropped, last_rc>>
    /\ UNCHANGED <<tickVars, serviceVars, concVars>>

\* Drop for Node, second loop: delete_network_uptr for the next collected id.
DropDeleteNext ==
    /\ node_pc = "drop_loop"
    /\ drop_nwids # <<>>
    /\ LET nwid == Head(drop_nwids)
           after == delete_network_uptr(networks_by_id, released, nwid)
       IN  /\ networks_by_id' = after.reg
           /\ released' = after.rel
           /\ drop_releases' = drop_releases
                               + (IF after.rel # released THEN 1 ELSE 0)
    /\ drop_nwids' = Tail(drop_nwids)
    /\ UNCHANGED <<next_handle, capi, node_pc, last_call, last_op, drop_registered,
                   buf_state, buf_handed, buf_dropped, last_rc>>
    /\ UNCHANGED <<tickVars, serviceVars, concVars>>

\* Drop for Node, last step: ZT_Node_delete on the engine instance.
DropEngineDelete ==
    /\ node_pc = "drop_loop"
    /\ drop_nwids = <<>>
    /\ capi' = "deleted"
    /\ node_pc' = "dropped"
    /\ UNCHANGED <<networks_by_id, next_handle, released, drop_nwids, last_call,
                   last_op, drop_registered, drop_releases,
                   buf_state, buf_handed, buf_dropped, last_rc>>
    /\ UNCHANGED <<tickVars, serviceVars, concVars>>

---------------------------------------------------------------------------
\* The end of a scope that still owns the Buffer: Buffer::drop runs (mutant of
\* mem_forget).
drop_at_scope_end(dropped, b) == [dropped EXCEPT ![b] = @ + 1]

\* std::mem::forget(data): the Buffer's drop does not run.
mem_forget(dropped, b) == dropped

\* Node::process_wire_packet: pass the buffer to the engine, forget it, return
\* the decoded result code.
process_wire_packet(b, rc) ==
    /\ node_pc = "ready"
    /\ buf_state[b] = "owned"
    /\ buf_handed' = [buf_handed EXCEPT ![b] = @ + 1]
    /\ buf_dropped' = mem_forget(buf_dropped, b)
    /\ buf_state' = [buf_state EXCEPT ![b] = "transferred"]
    /\ last_rc' = ResultCode_or_internal(rc)
    /\ last_op' = [op |-> "process_wire_packet", nwid |-> 0]
    /\ UNCHANGED <<networks_by_id, next_handle, released, capi, node_pc, drop_nwids,
                   last_call, drop_registered, drop_releases>>
    /\ UNCHANGED <<tickVars, serviceVars, concVars>>

\* Node::process_virtual_network_frame: the same hand-off for a frame of nwid.
process_virtual_network_frame(nwid, b, rc) ==
    /\ node_pc = "ready"
    /\ buf_state[b] = "owned"
    /\ buf_handed' = [buf_handed EXCEPT ![b] = @ + 1]
    /\ buf_dropped' = mem_forget(buf_dropped, b)
    /\ buf_state' = [buf_state EXCEPT ![b] = "transferred"]
    /\ last_rc' = ResultCode_or_internal(rc)
    /\ last_op' = [op |-> "process_virtual_network_frame", nwid |-> nwid]
    /\ UNCHANGED <<networks_by_id, next_handle, released, capi, node_pc, drop_nwids,
                   last_call, drop_registered, drop_releases>>
    /\ UNCHANGED <<tickVars, serviceVars, concVars>>

\* A caller that never passes its Buffer on lets it go out of scope: the
\* normal release path (Buffer::drop) runs.
BufferDrop(b) ==
    /\ buf_state[b] = "owned"
    /\ buf_dropped' = drop_at_scope_end(buf_dropped, b)
    /\ buf_state' = [buf_state EXCEPT ![b] = "released"]
    /\ UNCHANGED <<networks_by_id, next_handle, released, capi, node_pc, drop_nwids,
                   last_call, last_op, drop_registered, drop_releases,
                   buf_handed, last_rc>>
    /\ UNCHANGED <<tickVars, serviceVars, concVars>>

---------------------------------------------------------------------------
\* i64 arithmetic, at a width of IntBits bits.
IntMin == -(2 ^ (IntBits - 1))
IntMax == (2 ^ (IntBits - 1)) - 1
IntRange == IntMin..IntMax

\* Two's complement wrap of a mathematical integer.
Wrap(x) == ((x - IntMin) % (2 ^ IntBits)) + IntMin

\* next_task_deadline - current_time overflows the integer type.
SubOverflows(a, b) == (a - b < IntMin) \/ (a - b > IntMax)

\* The clamp of process_background_tasks with the lower branch missing (mutant).
clamp_delay_no_floor(next_delay) ==
    IF next_delay > NODE_BACKGROUND_TASKS_MAX_INTERVAL
    THEN NODE_BACKGROUND_TASKS_MAX_INTERVAL
    ELSE next_delay

\* process_background_tasks: below 1 becomes 1, above the maximum interval
\* becomes the maximum interval.
clamp_delay(next_delay) ==
    IF next_delay < 1 THEN 1
    ELSE IF next_delay > NODE_BACKGROUND_TASKS_MAX_INTERVAL
         THEN NODE_BACKGROUND_TASKS_MAX_INTERVAL
         ELSE next_delay

\* Node::process_background_tasks for the deadline the engine wrote back: the
\* subtraction panics on overflow in a build with overflow checks and wraps in
\* one without.
ProcessBackgroundTasks ==
    /\ bt_status = "idle"
    /\ IF SubOverflows(bt_deadline, bt_now) /\ overflow_checks
       THEN /\ bt_status' = "panicked"
            /\ bt_delay' = bt_delay
       ELSE /\ bt_status' = "returned"
            /\ bt_delay' = clamp_delay(Wrap(bt_deadline - bt_now))
    /\ UNCHANGED <<overflow_checks, bt_now, bt_deadline>>
    /\ UNCHANGED <<nodeVars, serviceVars, concVars>>

---------------------------------------------------------------------------
\* run() of the service: configuration, interfaces, sockets.

\* Bounds of the model of run().
StartClock == 10000
MaxClock == 16000

\* Program constants.
CONFIG_CHECK_INTERVAL == 5000
BackoffMillis == 1000

\* Option<u16> as a set: {} is None, {p} is Some(p).
Unwrap(opt) == CHOOSE p \in opt : TRUE

\* LocalConfig snapshots the persisted configuration can hold. settings.* of
\* the code are the fields; blacklist is what is_interface_blacklisted tests.
BaseConfig ==
    [primary_port |-> 9993, secondary_port |-> {}, log_size_max |-> 1,
     log_to_stderr |-> FALSE, auto_port_search |-> FALSE, blacklist |-> {}]

ConfFiles ==
    { BaseConfig,
      [BaseConfig EXCEPT !.log_size_max = 2],
      [BaseConfig EXCEPT !.log_to_stderr = TRUE],
      [BaseConfig EXCEPT !.primary_port = 9994],
      [BaseConfig EXCEPT !.primary_port = 9994, !.log_size_max = 2],
      [BaseConfig EXCEPT !.secondary_port = {9995}],
      [BaseConfig EXCEPT !.secondary_port = {9993}],
      [BaseConfig EXCEPT !.auto_port_search = TRUE],
      [BaseConfig EXCEPT !.blacklist = {"eth1"}] }

\* LocalConfigSettings::is_interface_blacklisted
is_interface_blacklisted(cfg, dev) == dev \in cfg.blacklist

\* InetAddress::ip_scope of the addresses used: 1 stands for 10.0.0.5,
\* 2 for fe80::1, 3 for 8.8.4.4.
ip_scope(ip) ==
    CASE ip = 1 -> "Private"
      [] ip = 2 -> "LinkLocal"
      [] ip = 3 -> "Global"
      [] OTHER -> "None"

\* The scopes the closure given to for_each_address accepts.
UsefulScopes == {"Global", "Private", "PseudoPrivate", "Shared"}

\* What for_each_address hands to the closure: sequences of (address, device).
IfLists ==
    { <<>>,
      <<[ip |-> 1, dev |-> "eth0"]>>,
      <<[ip |-> 1, dev |-> "eth0"], [ip |-> 2, dev |-> "eth0"]>>,
      <<[ip |-> 1, dev |-> "eth0"], [ip |-> 1, dev |-> "eth1"]>>,
      <<[ip |-> 1, dev |-> "eth0"], [ip |-> 3, dev |-> "eth1"]>> }

\* BTreeMap::insert on a map kept as a function.
MapInsert(m, k, v) == [a \in (DOMAIN m) \cup {k} |-> IF a = k THEN v ELSE m[a]]
MapRestrict(m, keys) == [a \in keys |-> m[a]]
EmptyMap == [a \in {} |-> "none"]

\* The closure of the address enumeration, applied to one (address, device):
\* insert the address at the primary port and, when there is a secondary
\* port, at the secondary port.
system_addrs_insert(acc, cfg, e) ==
    IF ip_scope(e.ip) \in UsefulScopes /\ ~is_interface_blacklisted(cfg, e.dev)
    THEN LET a1 == MapInsert(acc, [ip |-> e.ip, port |-> cfg.primary_port], e.dev)
         IN  IF cfg.secondary_port # {}
             THEN MapInsert(a1, [ip |-> e.ip, port |-> Unwrap(cfg.secondary_port)], e.dev)
             ELSE a1
    ELSE acc

RECURSIVE enumerate_system_addrs(_, _, _)
enumerate_system_addrs(ifs, cfg, acc) ==
    IF ifs = <<>> THEN acc
    ELSE enumerate_system_addrs(Tail(ifs), cfg, system_addrs_insert(acc, cfg, Head(ifs)))

\* The sockets to close (mutant: none is closed).
addrs_to_close_none(socks, sa) == {}

\* "Drop bound sockets that are no longer valid or are now blacklisted."
addrs_to_close(socks, sa) == {a \in DOMAIN socks : a \notin DOMAIN sa}

\* The addresses to open (mutant: every desired address, bound or not).
addrs_to_open_all(socks, sa) == DOMAIN sa

\* "Create sockets for unbound addresses."
addrs_to_open(socks, sa) == {a \in DOMAIN sa : a \notin DOMAIN socks}

\* Ord for InetAddress: the raw bytes, port before address.
AddrLess(a, b) == (a.port < b.port) \/ (a.port = b.port /\ a.ip < b.ip)

\* BTreeMap iteration: the keys in ascending order.
SortedAddrs(S) ==
    CHOOSE s \in Orderings(S) :
        \A i, j \in 1..Cardinality(S) : i < j => AddrLess(s[i], s[j])

\* The loop with the secondary port unwrapped at the top of the body, before
\* the test of the primary port (mutant of the order of the two tests).
RECURSIVE classify_ports_unwrap_first(_, _, _, _, _)
classify_ports_unwrap_first(socks, i, cfg, pf, sf) ==
    IF i > Len(socks) THEN [primary |-> pf, secondary |-> sf, panic |-> FALSE]
    ELSE IF cfg.secondary_port = {}
    THEN [primary |-> pf, secondary |-> sf, panic |-> TRUE]
    ELSE
        LET port == socks[i].port
            pf1 == IF port = cfg.primary_port THEN FALSE ELSE pf
            sf1 == IF port = Unwrap(cfg.secondary_port) THEN FALSE ELSE sf
        IN  IF ~pf1 /\ ~sf1
            THEN [primary |-> pf1, secondary |-> sf1, panic |-> FALSE]
            ELSE classify_ports_unwrap_first(socks, i + 1, cfg, pf1, sf1)

\* The loop leaving at the first socket of the primary port, whatever the
\* secondary flag says (mutant of the early exits).
RECURSIVE classify_ports_first_match(_, _, _, _, _)
classify_ports_first_match(socks, i, cfg, pf, sf) ==
    IF i > Len(socks) THEN [primary |-> pf, secondary |-> sf, panic |-> FALSE]
    ELSE
        LET port == socks[i].port
        IN  IF port = cfg.primary_port
            THEN [primary |-> FALSE, secondary |-> sf, panic |-> FALSE]
            ELSE IF cfg.secondary_port = {}
            THEN [primary |-> pf, secondary |-> sf, panic |-> TRUE]
            ELSE classify_ports_first_match(socks, i + 1, cfg, pf,
                     IF port = Unwrap(cfg.secondary_port) THEN FALSE ELSE sf)

\* The loop that determines primary_port_bind_failure and
\* secondary_port_bind_failure, from socket i on; panic is the unwrap of an
\* absent secondary port.
RECURSIVE classify_ports(_, _, _, _, _)
classify_ports(socks, i, cfg, pf, sf) ==
    IF i > Len(socks) THEN [primary |-> pf, secondary |-> sf, panic |-> FALSE]
    ELSE
        LET port == socks[i].port
            pf1 == IF port = cfg.primary_port THEN FALSE ELSE pf
        IN  IF port = cfg.primary_port /\ ~sf
            THEN [primary |-> pf1, secondary |-> sf, panic |-> FALSE]
            ELSE IF cfg.secondary_port = {}
            THEN [primary |-> pf1, secondary |-> sf, panic |-> TRUE]
            ELSE
                LET sf1 == IF port = Unwrap(cfg.secondary_port) THEN FALSE ELSE sf
                IN  IF port = Unwrap(cfg.secondary_port) /\ ~pf1
                    THEN [primary |-> pf1, secondary |-> sf1, panic |-> FALSE]
                    ELSE classify_ports(socks, i + 1, cfg, pf1, sf1)

\* The policy after the classification (mutants: auto_port_search ignored;
\* a secondary failure breaks too).
pass_breaks_ignoring_auto(pf, sf, cfg) == pf
pass_breaks_on_secondary(pf, sf, cfg) == (pf \/ sf) /\ ~cfg.auto_port_search

\* The pass breaks the inner loop: primary failure without auto_port_search.
pass_breaks(pf, sf, cfg) == pf /\ ~cfg.auto_port_search

\* The snapshot the outer loop starts a serving cycle from (mutant: the one
\* the previous cycle worked from).
previous_cycle_config == local_config

\* let mut local_config = service.local_config();
snapshot_at_start == service_local_config

\* Which setting the re-read configuration next changes from the snapshot
\* cur the cycle works from, as the tests of the config check see it: the
\* primary port first, then log_size_max alone, then anything else.
changed_setting(cur, next) ==
    IF cur.primary_port # next.primary_port THEN "primary_port"
    ELSE IF next = [cur EXCEPT !.log_size_max = next.log_size_max]
            /\ cur.log_size_max # next.log_size_max THEN "log_size_max"
    ELSE IF cur = next THEN "same"
    ELSE "other"

\* The endpoints the enumeration yields for interface list ifs under cfg.
DesiredEndpoints(ifs, cfg) ==
    {[ip |-> ifs[i].ip, port |-> p] :
        i \in {j \in 1..Len(ifs) :
                   /\ ip_scope(ifs[j].ip) \in UsefulScopes
                   /\ ~is_interface_blacklisted(cfg, ifs[j].dev)},
        p \in {cfg.primary_port} \cup cfg.secondary_port}

\* Deadlines the engine writes back in a tick, as differences from now.
TickDeadlineDiffs == {-1, 300}

\* How long the timer branch of the wait takes: tokio's sleep returns after
\* at least loop_delay; here only when a whole check interval has passed.
TimerElapsed == {CONFIG_CHECK_INTERVAL}

Events == {"Down"}

---------------------------------------------------------------------------
\* The end of the pass's block: its locals go out of scope, and the history
\* of what the pass did is forgotten.
ForgetPass ==
    /\ config_change' = "none"
    /\ read_failed' = FALSE
    /\ primary_port_bind_failure' = FALSE
    /\ secondary_port_bind_failure' = FALSE
    /\ fresh' = FALSE
    /\ same_inputs' = FALSE
    /\ prev_unbound' = {}
    /\ opened' = {}
    /\ closed' = {}
    /\ attempted' = {}

\* Node::new with the test of the instance pointer left out (mutant).
Node_new_trusting_status(rc, capi_is_null) ==
    IF rc # 0
    THEN [ok |-> FALSE,
          err |-> IF ResultCode_from_i32(rc) = "None" THEN "FatalErrorInternal"
                  ELSE ResultCode_from_i32(rc)]
    ELSE [ok |-> TRUE, err |-> "none"]

\* Node::new: the result for the status rc of ZT_Node_new and the instance
\* pointer it wrote back.
Node_new(rc, capi_is_null) ==
    IF rc # 0
    THEN [ok |-> FALSE,
          err |-> IF ResultCode_from_i32(rc) = "None" THEN "FatalErrorInternal"
                  ELSE ResultCode_from_i32(rc)]
    ELSE IF capi_is_null
    THEN [ok |-> FALSE, err |-> "FatalErrorInternal"]
    ELSE [ok |-> TRUE, err |-> "none"]

\* Node::new called by run(): failure sets process_exit_value and returns.
NodeNew(rc, capi_is_null) ==
    /\ pc = "node_new"
    /\ LET node == Node_new(rc, capi_is_null)
       IN  /\ node_new_call' = [called |-> TRUE, rc |-> rc,
                               capi_is_null |-> capi_is_null, ok |-> node.ok]
           /\ IF node.ok THEN pc' = "start" /\ UNCHANGED process_exit_value
              ELSE pc' = "done" /\ process_exit_value' = 1
    /\ UNCHANGED <<run, online, service_local_config, local_config, udp_sockets,
                   system_addrs, loop_delay, clock, now, last_checked_config,
                   primary_port_bind_failure, secondary_port_bind_failure,
                   warp_server, live_listeners, log_max_size, log_stderr>>
    /\ UNCHANGED <<break_at, cleared_at, config_change, read_failed, reconciled, last_ifaces,
                   last_cfg, fresh, same_inputs, prev_unbound, opened, closed, attempted>>
    /\ UNCHANGED <<timeVars, nodeVars, tickVars, concVars>>

\* Top of the outer loop: take the snapshot, bind the control listener.
Start ==
    /\ pc = "start"
    /\ local_config' = snapshot_at_start
    /\ \E bound \in BOOLEAN :
        IF bound
        THEN /\ warp_server' = "running"
             /\ live_listeners' = live_listeners + 1
             /\ last_checked_config' = 0
             /\ pc' = "wait"
             /\ UNCHANGED break_at
        ELSE /\ pc' = "done"
             /\ break_at' = "listener_bind_failure"
             /\ UNCHANGED <<warp_server, live_listeners, last_checked_config>>
    /\ UNCHANGED <<run, online, service_local_config, udp_sockets, system_addrs,
                   loop_delay, clock, now, primary_port_bind_failure,
                   secondary_port_bind_failure, process_exit_value,
                   log_max_size, log_stderr>>
    /\ UNCHANGED <<node_new_call, cleared_at, config_change, read_failed, reconciled, last_ifaces, last_cfg,
                   fresh, same_inputs, prev_unbound, opened, closed, attempted>>
    /\ UNCHANGED <<timeVars, nodeVars, tickVars, concVars>>

\* The count of waits, kept up to "more than one".
one_more_wait(w) == IF w >= 2 THEN 2 ELSE w + 1

\* The wait, timer branch.
WaitTimer(e) ==
    /\ pc = "wait"
    /\ e >= loop_delay
    /\ clock + e <= MaxClock
    /\ clock' = clock + e
    /\ now' = clock + e
    /\ pc' = "check"
    /\ UNCHANGED <<run, online, service_local_config, local_config, udp_sockets,
                   system_addrs, loop_delay, last_checked_config,
                   primary_port_bind_failure, secondary_port_bind_failure,
                   warp_server, live_listeners, process_exit_value, log_max_size, log_stderr>>
    /\ waits_since_tick' = one_more_wait(waits_since_tick)
    /\ UNCHANGED prev_check
    /\ sel_ready' = {}
    /\ UNCHANGED <<passVars, nodeVars, tickVars, concVars>>

\* The wait, interrupt branch.
WaitInterrupt ==
    /\ pc = "wait"
    /\ now' = clock
    /\ pc' = "check"
    /\ UNCHANGED <<run, online, service_local_config, local_config, udp_sockets,
                   system_addrs, loop_delay, clock, last_checked_config,
                   primary_port_bind_failure, secondary_port_bind_failure,
                   warp_server, live_listeners, process_exit_value, log_max_size, log_stderr>>
    /\ waits_since_tick' = one_more_wait(waits_since_tick)
    /\ UNCHANGED prev_check
    /\ sel_ready' = {}
    /\ UNCHANGED <<passVars, nodeVars, tickVars, concVars>>

\* The wait, ctrl_c branch: clear the run flag and break.
WaitCtrlC ==
    /\ pc = "wait"
    /\ run' = FALSE
    /\ pc' = "teardown"
    /\ break_at' = "ctrl_c"
    /\ cleared_at' = IF run THEN pc ELSE cleared_at
    /\ UNCHANGED <<online, service_local_config, local_config, udp_sockets,
                   system_addrs, loop_delay, clock, now, last_checked_config,
                   primary_port_bind_failure, secondary_port_bind_failure,
                   warp_server, live_listeners, process_exit_value, log_max_size, log_stderr>>
    /\ UNCHANGED <<node_new_call, config_change, read_failed, reconciled, last_ifaces, last_cfg,
                   fresh, same_inputs, prev_unbound, opened, closed, attempted>>
    /\ sel_ready' = {}
    /\ UNCHANGED <<waits_since_tick, prev_check, nodeVars, tickVars, concVars>>

\* The branches of the tokio::select! of the wait.
SelectBranches == {"timer", "interrupt", "ctrl_c"}

\* The select! polls its branches and finds those of ready completed, all
\* at the same time.
select_poll(ready) ==
    /\ pc = "wait"
    /\ sel_ready = {}
    /\ ready # {}
    /\ sel_ready' = ready
    /\ UNCHANGED <<waits_since_tick, prev_check>>
    /\ UNCHANGED <<loopVars, passVars, nodeVars, tickVars, concVars>>

\* The snapshot current after the re-read with a failed read answered by
\* the default configuration (mutant).
config_after_read_or_default(read_ok, new_config, current) ==
    IF read_ok THEN new_config ELSE BaseConfig

\* if new_config.is_ok() { service.set_local_config(new_config.unwrap()) }:
\* the snapshot that is current afterwards.
config_after_read(read_ok, new_config, current) ==
    IF read_ok THEN new_config ELSE current

\* The interval test and the check for changes to local.conf: re-read it,
\* install it when the read succeeds, break when the primary port changed,
\* else apply the log settings and take the snapshot as local_config.
ConfigCheck(read_ok, new_config) ==
    /\ pc = "check"
    /\ IF (now - last_checked_config) >= CONFIG_CHECK_INTERVAL
       THEN /\ last_checked_config' = now
            /\ prev_check' = now
            /\  /\ service_local_config' =
                       config_after_read(read_ok, new_config, service_local_config)
                /\ config_change' = changed_setting(local_config, service_local_config')
                /\ read_failed' = ~read_ok
                /\ LET next_local_config == service_local_config'
                   IN  IF local_config.primary_port # next_local_config.primary_port
                       THEN /\ pc' = "teardown"
                            /\ break_at' = "port_change"
                            /\ UNCHANGED <<local_config, log_max_size, log_stderr>>
                       ELSE /\ log_max_size' =
                                   IF local_config.log_size_max # next_local_config.log_size_max
                                   THEN next_local_config.log_size_max ELSE log_max_size
                            /\ log_stderr' =
                                   IF local_config.log_to_stderr # next_local_config.log_to_stderr
                                   THEN next_local_config.log_to_stderr ELSE log_stderr
                            /\ local_config' = next_local_config
                            /\ pc' = "reconcile"
                            /\ UNCHANGED break_at
       ELSE /\ pc' = "run_check"
            /\ UNCHANGED <<last_checked_config, service_local_config, local_config,
                           log_max_size, log_stderr, break_at, config_change,
                           read_failed, prev_check>>
    /\ UNCHANGED <<run, online, udp_sockets, system_addrs, loop_delay, clock, now,
                   primary_port_bind_failure, secondary_port_bind_failure,
                   warp_server, live_listeners, process_exit_value>>
    /\ UNCHANGED <<node_new_call, cleared_at, reconciled, last_ifaces, last_cfg, fresh,
                   same_inputs, prev_unbound, opened, closed, attempted>>
    /\ UNCHANGED <<waits_since_tick, sel_ready, nodeVars, tickVars, concVars>>

\* The rest of the pass: enumerate the addresses, close the sockets no longer
\* wanted, open the missing ones (each bind may fail), classify the port
\* failures and apply the policy.
Reconcile(ifs) ==
    /\ pc = "reconcile"
    /\ LET sa == enumerate_system_addrs(ifs, local_config, EmptyMap)
            to_close == addrs_to_close(udp_sockets, sa)
            kept == MapRestrict(udp_sockets, (DOMAIN udp_sockets) \ to_close)
            to_open == addrs_to_open(kept, sa)
        IN  \E bound \in SUBSET to_open :
            LET socks == [a \in (DOMAIN kept) \cup bound |->
                              IF a \in bound THEN sa[a] ELSE kept[a]]
                c == classify_ports(SortedAddrs(DOMAIN socks), 1, local_config, TRUE,
                                    local_config.secondary_port # {})
            IN  /\ system_addrs' = sa
                /\ udp_sockets' = socks
                /\ primary_port_bind_failure' = c.primary
                /\ secondary_port_bind_failure' = c.secondary
                /\ IF c.panic
                   THEN pc' = "panicked" /\ UNCHANGED break_at
                   ELSE IF pass_breaks(c.primary, c.secondary, local_config)
                   THEN pc' = "teardown" /\ break_at' = "primary_port_bind_failure"
                   ELSE pc' = "run_check" /\ UNCHANGED break_at
                /\ config_change' = "none"
                /\ read_failed' = FALSE
                /\ fresh' = TRUE
                /\ reconciled' = TRUE
                /\ last_ifaces' = ifs
                /\ last_cfg' = local_config
                /\ same_inputs' = (reconciled /\ last_ifaces = ifs /\ last_cfg = local_config)
                /\ prev_unbound' = (DOMAIN system_addrs) \ (DOMAIN udp_sockets)
                /\ opened' = bound
                /\ closed' = to_close
                /\ attempted' = to_open
    /\ UNCHANGED <<run, online, service_local_config, local_config, loop_delay, clock,
                   now, last_checked_config, warp_server, live_listeners, process_exit_value,
                   log_max_size, log_stderr, node_new_call, cleared_at>>
    /\ UNCHANGED <<timeVars, nodeVars, tickVars, concVars>>

\* The run check with the test of the flag left out (mutant).
RunCheck_ignoring_flag ==
    /\ pc = "run_check"
    /\ pc' = "tick"
    /\ ForgetPass
    /\ UNCHANGED <<run, online, service_local_config, local_config, udp_sockets,
                   system_addrs, loop_delay, clock, now, last_checked_config,
                   warp_server, live_listeners, process_exit_value, log_max_size, log_stderr>>
    /\ UNCHANGED <<break_at, node_new_call, cleared_at, reconciled, last_ifaces, last_cfg>>
    /\ UNCHANGED <<timeVars, nodeVars, tickVars, concVars>>

\* "Check to make sure nothing outside this code turned off the run flag."
RunCheck ==
    /\ pc = "run_check"
    /\ IF ~run THEN pc' = "teardown" /\ break_at' = "run_cleared"
       ELSE pc' = "tick" /\ UNCHANGED break_at
    /\ ForgetPass
    /\ UNCHANGED <<run, online, service_local_config, local_config, udp_sockets,
                   system_addrs, loop_delay, clock, now, last_checked_config,
                   warp_server, live_listeners, process_exit_value, log_max_size, log_stderr>>
    /\ UNCHANGED <<node_new_call, cleared_at, reconciled, last_ifaces, last_cfg>>
    /\ UNCHANGED <<timeVars, nodeVars, tickVars, concVars>>

\* loop_delay = node.process_background_tasks(now)
Tick(diff) ==
    /\ pc = "tick"
    /\ loop_delay' = clamp_delay(diff)
    /\ pc' = "wait"
    /\ UNCHANGED <<run, online, service_local_config, local_config, udp_sockets,
                   system_addrs, clock, now, last_checked_config,
                   primary_port_bind_failure, secondary_port_bind_failure,
                   warp_server, live_listeners, process_exit_value, log_max_size, log_stderr>>
    /\ waits_since_tick' = 0
    /\ UNCHANGED <<prev_check, sel_ready>>
    /\ UNCHANGED <<passVars, nodeVars, tickVars, concVars>>

\* The teardown with the listener signalled but its task not awaited (mutant).
Teardown_not_awaited ==
    /\ pc = "teardown"
    /\ warp_server' = "stopped"
    /\ UNCHANGED live_listeners
    /\ pc' = IF ~run THEN "done" ELSE "backoff"
    /\ ForgetPass
    /\ UNCHANGED <<run, online, service_local_config, local_config, udp_sockets,
                   system_addrs, loop_delay, clock, now, last_checked_config,
                   process_exit_value, log_max_size, log_stderr>>
    /\ UNCHANGED <<break_at, node_new_call, cleared_at, reconciled, last_ifaces, last_cfg>>
    /\ UNCHANGED <<timeVars, nodeVars, tickVars, concVars>>

\* After the inner loop: shut the control listener down and await it, then
\* the first run-flag test of the outer loop.
Teardown ==
    /\ pc = "teardown"
    /\ warp_server' = "stopped"
    /\ live_listeners' = 0
    /\ pc' = IF ~run THEN "done" ELSE "backoff"
    /\ ForgetPass
    /\ UNCHANGED <<run, online, service_local_config, local_config, udp_sockets,
                   system_addrs, loop_delay, clock, now, last_checked_config,
                   process_exit_value, log_max_size, log_stderr>>
    /\ UNCHANGED <<break_at, node_new_call, cleared_at, reconciled, last_ifaces, last_cfg>>
    /\ UNCHANGED <<timeVars, nodeVars, tickVars, concVars>>

\* The one-second sleep and the second run-flag test.
Backoff ==
    /\ pc = "backoff"
    /\ clock + BackoffMillis <= MaxClock
    /\ clock' = clock + BackoffMillis
    /\ pc' = IF ~run THEN "done" ELSE "start"
    /\ UNCHANGED <<run, online, service_local_config, local_config, udp_sockets,
                   system_addrs, loop_delay, now, last_checked_config,
                   primary_port_bind_failure, secondary_port_bind_failure,
                   warp_server, live_listeners, process_exit_value, log_max_size, log_stderr>>
    /\ UNCHANGED <<passVars, timeVars, nodeVars, tickVars, concVars>>

\* Service::event, called by the engine from any of its threads.
Service_event(ev) ==
    /\ pc \notin {"node_new", "done", "panicked"}
    /\ run' = IF ev = "Down" THEN FALSE ELSE run
    /\ online' = IF ev \in {"Online", "Offline"} THEN TRUE ELSE online
    /\ UNCHANGED <<pc, service_local_config, local_config, udp_sockets, system_addrs,
                   loop_delay, clock, now, last_checked_config,
                   primary_port_bind_failure, secondary_port_bind_failure,
                   warp_server, live_listeners, process_exit_value, log_max_size, log_stderr>>
    /\ cleared_at' = IF ev = "Down" /\ run THEN pc ELSE cleared_at
    /\ UNCHANGED <<break_at, node_new_call, config_change, read_failed, reconciled, last_ifaces,
                   last_cfg, fresh, same_inputs, prev_unbound, opened, closed, attempted>>
    /\ UNCHANGED <<timeVars, nodeVars, tickVars, cfgVars, raceVars, moreVars>>

\* An event delivered to the Service while run() is under way.
event(ev) == Service_event(ev) /\ UNCHANGED dispatchVars

---------------------------------------------------------------------------
\* Service._local_config: readers of local_config() and set_local_config.

\* Bounds of the model of the snapshot.
MaxReaders == 2
MaxInstalls == 2

Readers == 1..MaxReaders
Writer == MaxReaders + 1
Arcs == 0..MaxInstalls
NoArc == -1

\* The LocalConfig the k-th set_local_config is called with (0: the one run()
\* starts with); two of its fields.
Snapshot(k) == [primary_port |-> 9993 + k, log_size_max |-> 1 + k]

\* The fields in the order a reader reads them.
FieldsOf(lc) == <<lc.primary_port, lc.log_size_max>>

\* What a read of one field can give: the field, or anything once the
\* allocation has been freed.
FieldRead(a, i) ==
    IF arc_state[a] = "live" THEN {FieldsOf(arc_val[a])[i]}
    ELSE {FieldsOf(Snapshot(k))[i] : k \in Arcs} \cup {0}

\* Drop of one Arc pointing to a: the count goes down, the allocation is freed
\* at zero.
ArcDrop(refs, state, a) ==
    [refs |-> [refs EXCEPT ![a] = @ - 1],
     state |-> IF refs[a] = 1 THEN [state EXCEPT ![a] = "freed"] ELSE state]

\* The store with the new fields copied into the current allocation, one
\* field so far (mutant).
mutex_store_in_place(vals, cur, new) ==
    [ptr |-> cur,
     val |-> [vals EXCEPT ![cur].primary_port = vals[new].primary_port],
     drop |-> new]

\* *guard = Arc::new(new_lc): the Mutex holds the new Arc, the one it held is
\* dropped; no allocation is written.
mutex_store(vals, cur, new) == [ptr |-> new, val |-> vals, drop |-> cur]

\* local_config(): self._local_config.lock().unwrap()
local_config_lock(t) ==
    /\ rd_pc[t] = "idle"
    /\ mutex_owner = 0
    /\ mutex_owner' = t
    /\ rd_pc' = [rd_pc EXCEPT ![t] = "locked"]
    /\ UNCHANGED <<arc_state, arc_refs, arc_val, mutex_ptr, installs, rd_ptr, rd_seen,
                   wr_pc, wr_new>>
    /\ UNCHANGED <<nodeVars, tickVars, serviceVars, raceVars, dispatchVars, moreVars>>

\* local_config(): .clone() of the Arc under the lock.
local_config_clone(t) ==
    /\ rd_pc[t] = "locked"
    /\ rd_ptr' = [rd_ptr EXCEPT ![t] = mutex_ptr]
    /\ arc_refs' = [arc_refs EXCEPT ![mutex_ptr] = @ + 1]
    /\ rd_pc' = [rd_pc EXCEPT ![t] = "cloned"]
    /\ UNCHANGED <<arc_state, arc_val, mutex_ptr, mutex_owner, installs, rd_seen,
                   wr_pc, wr_new>>
    /\ UNCHANGED <<nodeVars, tickVars, serviceVars, raceVars, dispatchVars, moreVars>>

\* local_config(): the guard is dropped, the Arc is returned.
local_config_unlock(t) ==
    /\ rd_pc[t] = "cloned"
    /\ mutex_owner' = 0
    /\ rd_pc' = [rd_pc EXCEPT ![t] = "holding"]
    /\ UNCHANGED <<arc_state, arc_refs, arc_val, mutex_ptr, installs, rd_ptr, rd_seen,
                   wr_pc, wr_new>>
    /\ UNCHANGED <<nodeVars, tickVars, serviceVars, raceVars, dispatchVars, moreVars>>

\* A reader (path_lookup, the loop of run()) reads the next field through
\* the Arc it holds.
reader_read(t) ==
    /\ rd_pc[t] = "holding"
    /\ Len(rd_seen[t]) < 2
    /\ \E v \in FieldRead(rd_ptr[t], Len(rd_seen[t]) + 1) :
           rd_seen' = [rd_seen EXCEPT ![t] = Append(@, v)]
    /\ UNCHANGED <<arc_state, arc_refs, arc_val, mutex_ptr, mutex_owner, installs,
                   rd_pc, rd_ptr, wr_pc, wr_new>>
    /\ UNCHANGED <<nodeVars, tickVars, serviceVars, raceVars, dispatchVars, moreVars>>

\* The reader's Arc goes out of scope.
reader_drop(t) ==
    /\ rd_pc[t] = "holding"
    /\ Len(rd_seen[t]) = 2
    /\ LET d == ArcDrop(arc_refs, arc_state, rd_ptr[t])
       IN  arc_refs' = d.refs /\ arc_state' = d.state
    /\ rd_ptr' = [rd_ptr EXCEPT ![t] = NoArc]
    /\ rd_seen' = [rd_seen EXCEPT ![t] = <<>>]
    /\ rd_pc' = [rd_pc EXCEPT ![t] = "idle"]
    /\ UNCHANGED <<arc_val, mutex_ptr, mutex_owner, installs, wr_pc, wr_new>>
    /\ UNCHANGED <<nodeVars, tickVars, serviceVars, raceVars, dispatchVars, moreVars>>

\* set_local_config: Arc::new(new_lc), evaluated before the lock is taken.
set_local_config_new ==
    /\ wr_pc = "idle"
    /\ installs < MaxInstalls
    /\ installs' = installs + 1
    /\ wr_new' = installs + 1
    /\ arc_state' = [arc_state EXCEPT ![installs + 1] = "live"]
    /\ arc_refs' = [arc_refs EXCEPT ![installs + 1] = 1]
    /\ arc_val' = [arc_val EXCEPT ![installs + 1] = Snapshot(installs + 1)]
    /\ wr_pc' = "allocated"
    /\ UNCHANGED <<mutex_ptr, mutex_owner, rd_pc, rd_ptr, rd_seen>>
    /\ UNCHANGED <<nodeVars, tickVars, serviceVars, raceVars, dispatchVars, moreVars>>

\* set_local_config: self._local_config.lock().unwrap()
set_local_config_lock ==
    /\ wr_pc = "allocated"
    /\ mutex_owner = 0
    /\ mutex_owner' = Writer
    /\ wr_pc' = "locked"
    /\ UNCHANGED <<arc_state, arc_refs, arc_val, mutex_ptr, installs, rd_pc, rd_ptr,
                   rd_seen, wr_new>>
    /\ UNCHANGED <<nodeVars, tickVars, serviceVars, raceVars, dispatchVars, moreVars>>

\* set_local_config: the assignment through the guard.
set_local_config_store ==
    /\ wr_pc = "locked"
    /\ LET st == mutex_store(arc_val, mutex_ptr, wr_new)
           d == ArcDrop(arc_refs, arc_state, st.drop)
       IN  /\ mutex_ptr' = st.ptr
           /\ arc_val' = st.val
           /\ arc_refs' = d.refs
           /\ arc_state' = d.state
    /\ wr_new' = NoArc
    /\ wr_pc' = "stored"
    /\ UNCHANGED <<mutex_owner, installs, rd_pc, rd_ptr, rd_seen>>
    /\ UNCHANGED <<nodeVars, tickVars, serviceVars, raceVars, dispatchVars, moreVars>>

\* set_local_config: the guard is dropped.
set_local_config_unlock ==
    /\ wr_pc = "stored"
    /\ mutex_owner' = 0
    /\ wr_pc' = "idle"
    /\ UNCHANGED <<arc_state, arc_refs, arc_val, mutex_ptr, installs, rd_pc, rd_ptr,
                   rd_seen, wr_new>>
    /\ UNCHANGED <<nodeVars, tickVars, serviceVars, raceVars, dispatchVars, moreVars>>

\* Service as run() builds it: the Mutex holds the initial snapshot.
InitConfig ==
    /\ arc_state = [a \in Arcs |-> IF a = 0 THEN "live" ELSE "unalloc"]
    /\ arc_refs = [a \in Arcs |-> IF a = 0 THEN 1 ELSE 0]
    /\ arc_val = [a \in Arcs |-> Snapshot(a)]
    /\ mutex_ptr = 0
    /\ mutex_owner = 0
    /\ installs = 0
    /\ rd_pc = [t \in Readers |-> "idle"]
    /\ rd_ptr = [t \in Readers |-> NoArc]
    /\ rd_seen = [t \in Readers |-> <<>>]
    /\ wr_pc = "idle"
    /\ wr_new = NoArc

---------------------------------------------------------------------------
\* Decoding of the engine's discriminants (num_derive's from_i32: the variant
\* with that value, "None" when there is none).

\* The values the variants have in the engine's header.
ConfigOpCodes == {1, 2, 3, 4}
EventCodes == {0, 1, 2, 3, 5, 6}
StateObjectTypeCodes == {1, 2, 3, 5, 6, 7, 8}
ZT_AF_INET == 2
ZT_AF_INET6 == 10
FamilyCodes == {ZT_AF_INET, ZT_AF_INET6}

\* Event::from_i32 with a code no variant has taken for Down (mutant).
Event_from_i32_defaulting(ev) ==
    CASE ev = 0 -> "Up"
      [] ev = 1 -> "Offline"
      [] ev = 2 -> "Online"
      [] ev = 5 -> "Trace"
      [] ev = 6 -> "UserMessage"
      [] OTHER -> "Down"

Event_from_i32(ev) ==
    CASE ev = 0 -> "Up"
      [] ev = 1 -> "Offline"
      [] ev = 2 -> "Online"
      [] ev = 3 -> "Down"
      [] ev = 5 -> "Trace"
      [] ev = 6 -> "UserMessage"
      [] OTHER -> "None"

StateObjectType_from_i32(t) ==
    CASE t = 1 -> "IdentityPublic"
      [] t = 2 -> "IdentitySecret"
      [] t = 3 -> "Locator"
      [] t = 5 -> "Peer"
      [] t = 6 -> "NetworkConfig"
      [] t = 7 -> "TrustStore"
      [] t = 8 -> "Certificate"
      [] OTHER -> "None"

\* zt_path_lookup_function's if / else if / else on sock_family.
InetAddressFamily_of(sock_family) ==
    IF sock_family = ZT_AF_INET THEN "IPv4"
    ELSE IF sock_family = ZT_AF_INET6 THEN "IPv6"
    ELSE "None"

VirtualNetworkConfigOperation_from_i32(op) ==
    CASE op = 1 -> "Up"
      [] op = 2 -> "Update"
      [] op = 3 -> "Down"
      [] op = 4 -> "Destroy"
      [] OTHER -> "None"

\* The codes used as inputs: some the enum has, some it has not.
RawConfigOps == {1, 4, 0, 9}
RawEvents == 0..7
RawStateObjectTypes == {1, 6, 0, 4}
RawFamilies == {ZT_AF_INET, ZT_AF_INET6, 0, 1}

---------------------------------------------------------------------------
\* join and leave in the steps another thread can see, the engine's record
\* of the user pointer, and the engine's thread calling back.

\* Node::join up to the insert: Box::into_raw(Box::new(network_obj.clone()))
\* and networks_by_id.lock()...insert(nwid, nptr).
join_insert(nwid) ==
    /\ node_pc = "ready"
    /\ api_pc = "idle"
    /\ next_handle <= MaxHandles
    /\ networks_by_id' = [networks_by_id EXCEPT ![nwid] = next_handle]
    /\ api_nptr' = next_handle
    /\ next_handle' = next_handle + 1
    /\ api_nwid' = nwid
    /\ api_pc' = "join_inserted"
    /\ UNCHANGED <<released, capi, node_pc, drop_nwids, last_call, last_op,
                   drop_registered, drop_releases, buf_state, buf_handed,
                   buf_dropped, last_rc>>
    /\ UNCHANGED <<engine_uptr, api_rc, cb_pc, cb_kind, cb_nwid, cb_nptr, cb_registered>>
    /\ UNCHANGED <<tickVars, serviceVars, cfgVars, dispatchVars, moreVars>>

\* Node::join: ZT_Node_join(capi, nwid, cfpp, nptr, null). On OK the engine
\* has the network with a user pointer: the one given, or (engine_keeps) the
\* one it already had for that network.
join_engine(rc, engine_keeps) ==
    /\ api_pc = "join_inserted"
    /\ engine_uptr' =
          IF rc # ZT_RESULT_OK THEN engine_uptr
          ELSE IF engine_keeps /\ engine_uptr[api_nwid] # NullPtr THEN engine_uptr
          ELSE [engine_uptr EXCEPT ![api_nwid] = api_nptr]
    /\ api_rc' = rc
    /\ api_pc' = "join_called"
    /\ UNCHANGED <<api_nwid, api_nptr, cb_pc, cb_kind, cb_nwid, cb_nptr, cb_registered>>
    /\ UNCHANGED <<nodeVars, tickVars, serviceVars, cfgVars, dispatchVars, moreVars>>

\* Node::join: the rollback on any result but OK, and the return.
join_return ==
    /\ api_pc = "join_called"
    /\ LET after == IF api_rc # ZT_RESULT_OK
                    THEN delete_network_uptr(networks_by_id, released, api_nwid)
                    ELSE [reg |-> networks_by_id, rel |-> released]
       IN  /\ networks_by_id' = after.reg
           /\ released' = after.rel
    /\ last_rc' = ResultCode_or_internal(api_rc)
    /\ api_pc' = "idle"
    /\ api_nwid' = 0
    /\ api_nptr' = NullPtr
    /\ api_rc' = ZT_RESULT_OK
    /\ UNCHANGED <<next_handle, capi, node_pc, drop_nwids, last_call, last_op,
                   drop_registered, drop_releases, buf_state, buf_handed, buf_dropped>>
    /\ UNCHANGED <<engine_uptr, cb_pc, cb_kind, cb_nwid, cb_nptr, cb_registered>>
    /\ UNCHANGED <<tickVars, serviceVars, cfgVars, dispatchVars, moreVars>>

\* Node::leave, first statement: self.delete_network_uptr(nwid.0).
leave_delete(nwid) ==
    /\ node_pc = "ready"
    /\ api_pc = "idle"
    /\ LET after == delete_network_uptr(networks_by_id, released, nwid)
       IN  /\ networks_by_id' = after.reg
           /\ released' = after.rel
    /\ api_nwid' = nwid
    /\ api_pc' = "leave_deleted"
    /\ UNCHANGED <<next_handle, capi, node_pc, drop_nwids, last_call, last_op,
                   drop_registered, drop_releases, buf_state, buf_handed,
                   buf_dropped, last_rc>>
    /\ UNCHANGED <<engine_uptr, api_nptr, api_rc, cb_pc, cb_kind, cb_nwid, cb_nptr,
                   cb_registered>>
    /\ UNCHANGED <<tickVars, serviceVars, cfgVars, dispatchVars, moreVars>>

\* Inside ZT_Node_leave the engine, when it has the network, calls
\* zt_virtual_network_config_function(nwid, nptr, op, null) on the thread of
\* leave; the handler is in virtual_network_config with &*(*nptr), the
\* engine's user pointer of the network.
leave_engine_callback(op) ==
    /\ api_pc = "leave_deleted"
    /\ capi = "live"
    /\ engine_uptr[api_nwid] # NullPtr
    /\ VirtualNetworkConfigOperation_from_i32(op) # "None"
    /\ api_pc' = "leave_callback"
    /\ UNCHANGED <<engine_uptr, api_nwid, api_nptr, api_rc, cb_pc, cb_kind, cb_nwid, cb_nptr,
                   cb_registered>>
    /\ UNCHANGED <<nodeVars, tickVars, serviceVars, cfgVars, dispatchVars, moreVars>>

\* Node::leave, second statement: ZT_Node_leave(capi, nwid, null, null)
\* returns, after the callback it made if it made one. On OK the engine no
\* longer has the network.
leave_engine(rc) ==
    /\ api_pc \in {"leave_deleted", "leave_callback"}
    /\ engine_uptr' = IF rc = ZT_RESULT_OK
                      THEN [engine_uptr EXCEPT ![api_nwid] = NullPtr]
                      ELSE engine_uptr
    /\ last_rc' = ResultCode_or_internal(rc)
    /\ api_pc' = "idle"
    /\ api_nwid' = 0
    /\ UNCHANGED <<networks_by_id, next_handle, released, capi, node_pc, drop_nwids,
                   last_call, last_op, drop_registered, drop_releases, buf_state,
                   buf_handed, buf_dropped>>
    /\ UNCHANGED <<api_nptr, api_rc, cb_pc, cb_kind, cb_nwid, cb_nptr, cb_registered>>
    /\ UNCHANGED <<tickVars, serviceVars, cfgVars, dispatchVars, moreVars>>

\* zt_virtual_network_frame_function: the one test made before the handler is
\* invoked.
frame_invokes_handler(nptr_is_null, nwid) == ~nptr_is_null

\* zt_virtual_network_frame_function, called by the engine for a network it
\* has, up to the call of virtual_network_frame with &*(*nptr).
zt_virtual_network_frame_function(nwid, nptr_is_null) ==
    /\ capi = "live"
    /\ cb_pc = "idle"
    /\ engine_uptr[nwid] # NullPtr
    /\ IF frame_invokes_handler(nptr_is_null, nwid)
       THEN /\ cb_pc' = "handler"
            /\ cb_kind' = "frame"
            /\ cb_nwid' = nwid
            /\ cb_nptr' = engine_uptr[nwid]
            /\ cb_registered' = (networks_by_id[nwid] # NullPtr)
       ELSE UNCHANGED <<cb_pc, cb_kind, cb_nwid, cb_nptr, cb_registered>>
    /\ UNCHANGED <<engine_uptr, api_pc, api_nwid, api_nptr, api_rc>>
    /\ UNCHANGED <<nodeVars, tickVars, serviceVars, cfgVars, dispatchVars, moreVars>>

\* zt_virtual_network_config_function, called by the engine for a network it
\* has, up to the call of virtual_network_config with &*(*nptr).
zt_virtual_network_config_function(nwid, op) ==
    /\ capi = "live"
    /\ cb_pc = "idle"
    /\ engine_uptr[nwid] # NullPtr
    /\ IF VirtualNetworkConfigOperation_from_i32(op) # "None"
       THEN /\ cb_pc' = "handler"
            /\ cb_kind' = "config"
            /\ cb_nwid' = nwid
            /\ cb_nptr' = engine_uptr[nwid]
            /\ cb_registered' = (networks_by_id[nwid] # NullPtr)
       ELSE UNCHANGED <<cb_pc, cb_kind, cb_nwid, cb_nptr, cb_registered>>
    /\ dp_tick' = ~dp_tick
    /\ dp_last' = [fn |-> "config", code |-> op,
                   handler |-> VirtualNetworkConfigOperation_from_i32(op) # "None",
                   result |-> 0, data |-> "none", ptrs_ok |-> TRUE]
    /\ UNCHANGED <<engine_uptr, api_pc, api_nwid, api_nptr, api_rc, store_objs>>
    /\ UNCHANGED <<nodeVars, tickVars, serviceVars, cfgVars, moreVars>>

\* The handler returns: the reference it was given is used up to here.
callback_return ==
    /\ cb_pc = "handler"
    /\ cb_pc' = "idle"
    /\ cb_kind' = "none"
    /\ cb_nwid' = 0
    /\ cb_nptr' = NullPtr
    /\ cb_registered' = TRUE
    /\ UNCHANGED <<engine_uptr, api_pc, api_nwid, api_nptr, api_rc>>
    /\ UNCHANGED <<nodeVars, tickVars, serviceVars, cfgVars, dispatchVars, moreVars>>

\* Node::new has returned: the engine has no network, no call is under way.
InitRace ==
    /\ engine_uptr = [n \in NetIds |-> NullPtr]
    /\ api_pc = "idle"
    /\ api_nwid = 0
    /\ api_nptr = NullPtr
    /\ api_rc = ZT_RESULT_OK
    /\ cb_pc = "idle"
    /\ cb_kind = "none"
    /\ cb_nwid = 0
    /\ cb_nptr = NullPtr
    /\ cb_registered = TRUE

---------------------------------------------------------------------------
\* The engine's callbacks that decode a discriminant, each with the handler
\* of Service it calls.

\* What *obj_data holds when the engine calls zt_state_get_function.
SlotsBefore == {"null", "garbage"}

\* zt_event_callback: Event::from_i32, then Service::event.
zt_event_callback(ev) ==
    /\ capi = "live"
    /\ LET ev2 == Event_from_i32(ev)
       IN  /\ IF ev2 # "None"
              THEN Service_event(ev2)
              ELSE UNCHANGED <<nodeVars, tickVars, serviceVars, cfgVars, raceVars, moreVars>>
           /\ dp_last' = [fn |-> "event", code |-> ev, handler |-> ev2 # "None",
                          result |-> 0, data |-> "none", ptrs_ok |-> TRUE]
    /\ dp_tick' = ~dp_tick
    /\ UNCHANGED store_objs

\* zt_state_put_function: StateObjectType::from_i32, then Service::state_put,
\* whose io::Result is dropped.
zt_state_put_function(obj_type, store_ok) ==
    /\ capi = "live"
    /\ LET obj_type2 == StateObjectType_from_i32(obj_type)
       IN  /\ store_objs' = IF obj_type2 # "None" /\ store_ok
                            THEN store_objs \cup {obj_type2}
                            ELSE store_objs
           /\ dp_last' = [fn |-> "state_put", code |-> obj_type,
                          handler |-> obj_type2 # "None", result |-> 0, data |-> "none",
                          ptrs_ok |-> TRUE]
    /\ dp_tick' = ~dp_tick
    /\ UNCHANGED <<nodeVars, tickVars, serviceVars, cfgVars, raceVars, moreVars>>

\* Bound of the model of c_int: its width in bits.
CIntBits == 3

\* x as c_int: the low CIntBits bits, as a signed number.
AsCInt(x) == ((x + 2 ^ (CIntBits - 1)) % (2 ^ CIntBits)) - 2 ^ (CIntBits - 1)

\* What the handler's state_get answers: -1 stands for Err, n >= 0 for Ok of
\* a Vec of n bytes; the lengths go past what c_int holds.
Loads == {-1} \cup 0..(2 ^ CIntBits + 2)

\* zt_state_get_function as a function: whether state_get is invoked, the
\* c_int returned, what *obj_data holds afterwards ("none": there is no
\* slot), whether ztcore::malloc gave memory and how many bytes were copied
\* into it. load is what the handler answers; obj_data_len is
\* len() as c_int, and malloc is asked for obj_data_len as c_ulong bytes,
\* which it cannot give when obj_data_len is negative.
state_get(obj_type, obj_data_is_null, free_fn_is_null, slot_before, load, malloc_ok) ==
    IF obj_data_is_null \/ free_fn_is_null
    THEN [handler |-> FALSE, result |-> -1,
          data |-> IF obj_data_is_null THEN "none" ELSE slot_before,
          allocated |-> FALSE, copied |-> 0]
    ELSE IF StateObjectType_from_i32(obj_type) = "None"
    THEN [handler |-> FALSE, result |-> -1, data |-> "null",
          allocated |-> FALSE, copied |-> 0]
    ELSE IF load > 0 /\ malloc_ok /\ AsCInt(load) >= 0
    THEN [handler |-> TRUE, result |-> AsCInt(load), data |-> "buf",
          allocated |-> TRUE, copied |-> AsCInt(load)]
    ELSE [handler |-> TRUE, result |-> -1, data |-> "null",
          allocated |-> FALSE, copied |-> 0]

\* What load_object answers in the model of the store: one byte for a type
\* that was stored, Err otherwise.
load_object(stored, obj_type) ==
    IF StateObjectType_from_i32(obj_type) \in stored THEN 1 ELSE -1

zt_state_get_function(obj_type, obj_data_is_null, free_fn_is_null, slot_before, malloc_ok) ==
    /\ capi = "live"
    /\ LET r == state_get(obj_type, obj_data_is_null, free_fn_is_null, slot_before,
                          load_object(store_objs, obj_type), malloc_ok)
       IN  dp_last' = [fn |-> "state_get", code |-> obj_type, handler |-> r.handler,
                       result |-> r.result, data |-> r.data,
                       ptrs_ok |-> ~(obj_data_is_null \/ free_fn_is_null)]
    /\ dp_tick' = ~dp_tick
    /\ UNCHANGED store_objs
    /\ UNCHANGED <<nodeVars, tickVars, serviceVars, cfgVars, raceVars, moreVars>>

\* zt_path_lookup_function: found is what Service::path_lookup answers.
zt_path_lookup_function(sock_family, sock_addr_is_null, found) ==
    /\ capi = "live"
    /\ LET invoked == (~sock_addr_is_null) /\ InetAddressFamily_of(sock_family) # "None"
       IN  dp_last' = [fn |-> "path_lookup", code |-> sock_family, handler |-> invoked,
                       result |-> IF invoked /\ found THEN 1 ELSE 0, data |-> "none",
                       ptrs_ok |-> ~sock_addr_is_null]
    /\ dp_tick' = ~dp_tick
    /\ UNCHANGED store_objs
    /\ UNCHANGED <<nodeVars, tickVars, serviceVars, cfgVars, raceVars, moreVars>>

\* Nothing stored, no callback made yet.
InitDispatch ==
    /\ store_objs = {}
    /\ dp_tick = FALSE
    /\ dp_last = [fn |-> "none", code |-> 0, handler |-> FALSE, result |-> 0,
                  data |-> "none", ptrs_ok |-> TRUE]

---------------------------------------------------------------------------
\* Service::path_lookup against set_local_config.

\* Bound of the model of path_lookup: the values random() gives.
MaxRandom == 3

RandomValues == 0..MaxRandom
Addresses == {1, 2, 3}

\* virtual_ maps a snapshot can hold: address -> try_ list of endpoints.
VirtualConfigs ==
    { [a \in {} |-> <<>>],
      [a \in {1} |-> <<>>],
      [a \in {1} |-> <<"A", "B">>],
      [a \in {1, 2} |-> IF a = 1 THEN <<"C">> ELSE <<"A", "B", "C">>],
      [a \in {2, 3} |-> IF a = 2 THEN <<"B">> ELSE <<>>] }

\* The elements of a list.
Elements(list) == {list[i] : i \in 1..Len(list)}

\* path_lookup without the test for an empty list (mutant): the index is
\* taken modulo the length or one.
path_lookup_no_empty_test(lc_virtual, address, rnd) ==
    IF address \notin DOMAIN lc_virtual THEN {}
    ELSE LET try_ == lc_virtual[address]
             i == (rnd % (IF Len(try_) = 0 THEN 1 ELSE Len(try_))) + 1
         IN  IF i <= Len(try_) THEN {try_[i]} ELSE {"unspecified"}

\* The body of path_lookup after lc = self.local_config(): the entry of the
\* address in lc.virtual_, and of its try_ list the element at
\* random() % len.
path_lookup(lc_virtual, address, rnd) ==
    IF address \notin DOMAIN lc_virtual THEN {}
    ELSE LET try_ == lc_virtual[address]
         IN  IF try_ = <<>> THEN {}
             ELSE {try_[(rnd % Len(try_)) + 1]}

\* path_lookup, first statement: let lc = self.local_config().
path_lookup_snapshot(address) ==
    /\ pl_pc \in {"idle", "returned"}
    /\ pl_pc' = "holding"
    /\ pl_address' = address
    /\ pl_lc' = virtual_
    /\ pl_result' = {}
    /\ UNCHANGED virtual_
    /\ UNCHANGED <<nodeVars, tickVars, serviceVars, cfgVars, raceVars, dispatchVars,
                   stateGetVars, classifyVars, laterVars>>

\* path_lookup, the rest: the lookup in lc with the value rnd of random().
path_lookup_select(rnd) ==
    /\ pl_pc = "holding"
    /\ pl_result' = path_lookup(pl_lc, pl_address, rnd)
    /\ pl_pc' = "returned"
    /\ UNCHANGED <<virtual_, pl_address, pl_lc>>
    /\ UNCHANGED <<nodeVars, tickVars, serviceVars, cfgVars, raceVars, dispatchVars,
                   stateGetVars, classifyVars, laterVars>>

\* set_local_config with a snapshot whose virtual_ map is v, at any moment
\* of a lookup.
set_local_config_virtual(v) ==
    /\ virtual_' = v
    /\ v # virtual_
    /\ UNCHANGED <<pl_pc, pl_address, pl_lc, pl_result>>
    /\ UNCHANGED <<nodeVars, tickVars, serviceVars, cfgVars, raceVars, dispatchVars,
                   stateGetVars, classifyVars, laterVars>>

\* No lookup under way; the initial snapshot has no virtual_ entry.
InitLookup ==
    /\ virtual_ = [a \in {} |-> <<>>]
    /\ pl_pc = "idle"
    /\ pl_address = 0
    /\ pl_lc = [a \in {} |-> <<>>]
    /\ pl_result = {}

---------------------------------------------------------------------------
\* zt_state_get_function applied to arguments, handler answers and malloc
\* outcomes chosen beforehand.

StateGetArgs ==
    [obj_type : RawStateObjectTypes, obj_data_is_null : BOOLEAN,
     free_fn_is_null : BOOLEAN, slot_before : SlotsBefore, load : Loads,
     malloc_ok : BOOLEAN]

NotReturned ==
    [status |-> "idle", handler |-> FALSE, result |-> 0, data |-> "none",
     allocated |-> FALSE, copied |-> 0]

\* The call.
StateGet ==
    /\ sg_ret.status = "idle"
    /\ LET r == state_get(sg_args.obj_type, sg_args.obj_data_is_null,
                          sg_args.free_fn_is_null, sg_args.slot_before,
                          sg_args.load, sg_args.malloc_ok)
       IN  sg_ret' = [status |-> "returned", handler |-> r.handler, result |-> r.result,
                      data |-> r.data, allocated |-> r.allocated, copied |-> r.copied]
    /\ UNCHANGED sg_args
    /\ UNCHANGED <<nodeVars, tickVars, serviceVars, cfgVars, raceVars, dispatchVars,
                   lookupVars, classifyVars, laterVars>>

\* No call of it under way.
InitStateGetIdle ==
    /\ sg_args = [obj_type |-> 1, obj_data_is_null |-> FALSE, free_fn_is_null |-> FALSE,
                  slot_before |-> "null", load |-> -1, malloc_ok |-> TRUE]
    /\ sg_ret = NotReturned

---------------------------------------------------------------------------
\* The classification loop applied to socket maps and snapshots chosen
\* beforehand.

\* Bound: the addresses a socket can be bound at.
MaxSockIps == 2

\* The keys udp_sockets can hold under cfg: the pass closes every socket
\* that is not at a wanted address, and those are at the configured ports.
SocketKeys(cfg) ==
    {[ip |-> i, port |-> p] : i \in 1..MaxSockIps,
                              p \in {cfg.primary_port} \cup cfg.secondary_port}

\* A snapshot, and the keys of a socket map in any order of iteration.
ClassifyArgs ==
    UNION {{[cfg |-> c, socks |-> s] : s \in UNION {Orderings(K) : K \in SUBSET SocketKeys(c)}}
           : c \in ConfFiles}

NotClassified == [status |-> "idle", primary |-> TRUE, secondary |-> TRUE, panic |-> FALSE]

\* The loop, with the initial values of the two flags.
Classify ==
    /\ cl_ret.status = "idle"
    /\ LET c == classify_ports(cl_args.socks, 1, cl_args.cfg, TRUE,
                               cl_args.cfg.secondary_port # {})
       IN  cl_ret' = [status |-> "returned", primary |-> c.primary,
                      secondary |-> c.secondary, panic |-> c.panic]
    /\ UNCHANGED cl_args
    /\ UNCHANGED <<nodeVars, tickVars, serviceVars, cfgVars, raceVars, dispatchVars,
                   lookupVars, stateGetVars, laterVars>>

\* No classification under way.
InitClassifyIdle ==
    /\ cl_args = [cfg |-> BaseConfig, socks |-> <<>>]
    /\ cl_ret = NotClassified

---------------------------------------------------------------------------
\* Node::leave called on a second thread while the first is in join.

\* leave, first statement, on the second thread: self.delete_network_uptr(nwid.0),
\* the remove under the registry's lock and the Box::from_raw.
leave_thread_delete(nwid) ==
    /\ node_pc = "ready"
    /\ lv_pc = "idle"
    /\ LET after == delete_network_uptr(networks_by_id, released, nwid)
       IN  /\ networks_by_id' = after.reg
           /\ released' = after.rel
    /\ lv_nwid' = nwid
    /\ lv_pc' = "leave_deleted"
    /\ lv_calls' = IF lv_calls >= 2 THEN 2 ELSE lv_calls + 1
    /\ UNCHANGED <<next_handle, capi, node_pc, drop_nwids, last_call, last_op,
                   drop_registered, drop_releases, buf_state, buf_handed,
                   buf_dropped, last_rc>>
    /\ UNCHANGED <<tickVars, serviceVars, cfgVars, raceVars, dispatchVars,
                   lookupVars, stateGetVars, classifyVars, ifaVars>>

\* leave, second statement, on the second thread: ZT_Node_leave(capi, nwid,
\* null, null). On OK the engine no longer has the network.
leave_thread_engine(rc) ==
    /\ lv_pc = "leave_deleted"
    /\ engine_uptr' = IF rc = ZT_RESULT_OK
                      THEN [engine_uptr EXCEPT ![lv_nwid] = NullPtr]
                      ELSE engine_uptr
    /\ last_rc' = ResultCode_or_internal(rc)
    /\ lv_pc' = "idle"
    /\ UNCHANGED <<lv_nwid, lv_calls>>
    /\ UNCHANGED <<networks_by_id, next_handle, released, capi, node_pc, drop_nwids,
                   last_call, last_op, drop_registered, drop_releases, buf_state,
                   buf_handed, buf_dropped>>
    /\ UNCHANGED <<api_pc, api_nwid, api_nptr, api_rc, cb_pc, cb_kind, cb_nwid, cb_nptr,
                   cb_registered>>
    /\ UNCHANGED <<tickVars, serviceVars, cfgVars, dispatchVars,
                   lookupVars, stateGetVars, classifyVars, ifaVars>>

\* No leave under way on the second thread.
InitLeaveThread ==
    /\ lv_pc = "idle"
    /\ lv_nwid = 0
    /\ lv_calls = 0

---------------------------------------------------------------------------
\* getifaddrs::for_each_address over a list chosen beforehand.

\* Bound: the entries of the list.
MaxIfaLen == 3

\* An entry: ifa_addr null, of family AF_INET, AF_INET6 or another one
\* (AF_PACKET, AF_LINK), and whether ifa_name converts with to_str().
IfaEntries == [addr : {"null", "inet", "inet6", "other"}, utf8 : BOOLEAN]

IfaLists == UNION {[1..n -> IfaEntries] : n \in 0..MaxIfaLen}

\* Where the loop body leaves i for the entry e at index i: the continue of
\* the family test goes back to the loop's test without i = (*i).ifa_next.
next_entry(e, i) == IF e.addr = "other" THEN i ELSE i + 1

\* The body calls f for the entry: an address of AF_INET or AF_INET6 and a
\* name that is UTF-8.
calls_f(e) == e.addr \in {"inet", "inet6"} /\ e.utf8

\* getifaddrs(&ifap): on 0 the loop starts at the head of the list,
\* otherwise nothing is done.
for_each_address_getifaddrs(ok) ==
    /\ ifa_pc = "idle"
    /\ IF ok
       THEN ifa_pc' = "loop" /\ ifa_i' = 1
       ELSE ifa_pc' = "done" /\ UNCHANGED ifa_i
    /\ UNCHANGED <<ifa_list, ifa_freed, ifa_visits, ifa_f>>
    /\ UNCHANGED <<nodeVars, tickVars, serviceVars, cfgVars, raceVars, dispatchVars,
                   lookupVars, stateGetVars, classifyVars, leaveVars>>

\* One iteration of while !i.is_null().
for_each_address_iteration ==
    /\ ifa_pc = "loop"
    /\ ifa_i <= Len(ifa_list)
    /\ LET e == ifa_list[ifa_i]
       IN  /\ ifa_visits' = [ifa_visits EXCEPT ![ifa_i] = IF @ >= 2 THEN 2 ELSE @ + 1]
           /\ ifa_f' = IF calls_f(e) THEN [ifa_f EXCEPT ![ifa_i] = @ + 1] ELSE ifa_f
           /\ ifa_i' = next_entry(e, ifa_i)
    /\ UNCHANGED <<ifa_list, ifa_pc, ifa_freed>>
    /\ UNCHANGED <<nodeVars, tickVars, serviceVars, cfgVars, raceVars, dispatchVars,
                   lookupVars, stateGetVars, classifyVars, leaveVars>>

\* The loop ends at null: freeifaddrs(ifap).
for_each_address_free ==
    /\ ifa_pc = "loop"
    /\ ifa_i > Len(ifa_list)
    /\ ifa_freed' = TRUE
    /\ ifa_pc' = "done"
    /\ UNCHANGED <<ifa_list, ifa_i, ifa_visits, ifa_f>>
    /\ UNCHANGED <<nodeVars, tickVars, serviceVars, cfgVars, raceVars, dispatchVars,
                   lookupVars, stateGetVars, classifyVars, leaveVars>>

\* for_each_address not called, to be given list.
InitIfaddrs(list) ==
    /\ ifa_list = list
    /\ ifa_pc = "idle"
    /\ ifa_i = 0
    /\ ifa_freed = FALSE
    /\ ifa_visits = [k \in 1..Len(list) |-> 0]
    /\ ifa_f = [k \in 1..Len(list) |-> 0]

\* The groups added to the concurrency models, idle.
InitMore ==
    InitLookup /\ InitStateGetIdle /\ InitClassifyIdle /\ InitLeaveThread /\ InitIfaddrs(<<>>)

---------------------------------------------------------------------------
\* run() up to the creation of the Node, started with snapshot cfg.
InitService(cfg) ==
    /\ pc = "node_new"
    /\ run = TRUE
    /\ online = FALSE
    /\ service_local_config = cfg
    /\ local_config = cfg
    /\ udp_sockets = EmptyMap
    /\ system_addrs = EmptyMap
    /\ loop_delay = NODE_BACKGROUND_TASKS_MAX_INTERVAL
    /\ clock = StartClock
    /\ now = 0
    /\ last_checked_config = 0
    /\ primary_port_bind_failure = FALSE
    /\ secondary_port_bind_failure = FALSE
    /\ warp_server = "none"
    /\ live_listeners = 0
    /\ process_exit_value = 0
    /\ log_max_size = cfg.log_size_max
    /\ log_stderr = cfg.log_to_stderr
    /\ break_at = "none"
    /\ cleared_at = "none"
    /\ node_new_call = [called |-> FALSE, rc |-> 0, capi_is_null |-> FALSE, ok |-> FALSE]
    /\ config_change = "none"
    /\ read_failed = FALSE
    /\ fresh = FALSE
    /\ reconciled = FALSE
    /\ last_ifaces = <<>>
    /\ last_cfg = cfg
    /\ same_inputs = FALSE
    /\ prev_unbound = {}
    /\ opened = {}
    /\ closed = {}
    /\ attempted = {}
    /\ waits_since_tick = 0
    /\ prev_check = 0
    /\ sel_ready = {}

InitNode ==
    /\ networks_by_id = [n \in NetIds |-> NullPtr]
    /\ next_handle = 1
    /\ released = [h \in Handles |-> 0]
    /\ capi = "live"
    /\ node_pc = "ready"
    /\ drop_nwids = <<>>
    /\ last_call = [n \in NetIds |-> "none"]
    /\ last_op = [op |-> "new", nwid |-> 0]
    /\ drop_registered = {}
    /\ drop_releases = 0
    /\ buf_state = [b \in Buffers |-> "owned"]
    /\ buf_handed = [b \in Buffers |-> 0]
    /\ buf_dropped = [b \in Buffers |-> 0]
    /\ last_rc = "Ok"

InitTickIdle ==
    /\ overflow_checks = FALSE
    /\ bt_status = "idle"
    /\ bt_now = 0
    /\ bt_deadline = 0
    /\ bt_delay = 0

\* The threads of the concurrency models, idle.
InitConc == InitConfig /\ InitRace /\ InitDispatch /\ InitMore

\* ---- SpecNode ----
NextNode ==
    \/ \E nwid \in NetIds, rc \in RawResultCodes : join(nwid, rc)
    \/ \E nwid \in NetIds, rc \in RawResultCodes : leave(nwid, rc)
    \/ DropCollect
    \/ DropDeleteNext
    \/ DropEngineDelete
    \/ \E b \in Buffers, rc \in RawResultCodes : process_wire_packet(b, rc)
    \/ \E nwid \in NetIds, b \in Buffers, rc \in RawResultCodes :
          process_virtual_network_frame(nwid, b, rc)
    \/ \E b \in Buffers : BufferDrop(b)

InitSpecNode == InitNode /\ InitTickIdle /\ InitService(BaseConfig) /\ InitConc

SpecNode == InitSpecNode /\ [][NextNode]_vars

\* ---- SpecTick ----
InitTick ==
    /\ overflow_checks \in BOOLEAN
    /\ bt_status = "idle"
    /\ bt_now \in 0..NowMax
    /\ bt_deadline \in IntRange
    /\ bt_delay = 0

NextTick == ProcessBackgroundTasks

InitSpecTick == InitNode /\ InitTick /\ InitService(BaseConfig) /\ InitConc

SpecTick == InitSpecTick /\ [][NextTick]_vars

\* ---- Spec: run() ----
Init ==
    /\ InitNode
    /\ InitTickIdle
    /\ \E cfg \in ConfFiles : InitService(cfg)
    /\ InitConc

Next ==
    \/ \E rc \in RawResultCodes, capi_is_null \in BOOLEAN : NodeNew(rc, capi_is_null)
    \/ Start
    \/ \E e \in TimerElapsed : WaitTimer(e)
    \/ WaitInterrupt
    \/ WaitCtrlC
    \/ \E read_ok \in BOOLEAN, new_config \in ConfFiles : ConfigCheck(read_ok, new_config)
    \/ \E ifs \in IfLists : Reconcile(ifs)
    \/ RunCheck
    \/ \E diff \in TickDeadlineDiffs : Tick(diff)
    \/ Teardown
    \/ Backoff
    \/ \E ev \in Events : event(ev)

Spec == Init /\ [][Next]_vars

\* ---- SpecLive: run() with the steps of its task taken fairly ----
\* The configurations and interface lists this specification draws from.
LiveConfFiles == {BaseConfig, [BaseConfig EXCEPT !.primary_port = 9994]}
LiveIfLists == {<<>>, <<[ip |-> 1, dev |-> "eth0"]>>}

InitLive == InitNode /\ InitTickIdle /\ InitService(BaseConfig) /\ InitConc

\* A step of the task that runs the loops: every await in them completes
\* (the sleeps are finite, the listener's task ends once signalled).
LoopStep ==
    \/ \E rc \in RawResultCodes, capi_is_null \in BOOLEAN : NodeNew(rc, capi_is_null)
    \/ Start
    \/ \E e \in TimerElapsed : WaitTimer(e)
    \/ WaitInterrupt
    \/ WaitCtrlC
    \/ \E read_ok \in BOOLEAN, new_config \in LiveConfFiles : ConfigCheck(read_ok, new_config)
    \/ \E ifs \in LiveIfLists : Reconcile(ifs)
    \/ RunCheck
    \/ \E diff \in TickDeadlineDiffs : Tick(diff)
    \/ Teardown
    \/ Backoff

NextLive ==
    \/ LoopStep
    \/ \E ev \in Events : event(ev)

SpecLive == InitLive /\ [][NextLive]_vars /\ WF_vars(LoopStep)

\* ---- SpecSelect: run() with the readiness of the select!'s branches ----
InitSelect == InitNode /\ InitTickIdle /\ InitService(BaseConfig) /\ InitConc

\* select! without biased; takes one of the branches found ready, chosen
\* at random.
select_timer(e) == "timer" \in sel_ready /\ WaitTimer(e)
select_interrupt == "interrupt" \in sel_ready /\ WaitInterrupt
select_ctrl_c == "ctrl_c" \in sel_ready /\ WaitCtrlC

NextSelect ==
    \/ NodeNew(ZT_RESULT_OK, FALSE)
    \/ Start
    \/ \E ready \in SUBSET SelectBranches : select_poll(ready)
    \/ \E e \in TimerElapsed : select_timer(e)
    \/ select_interrupt
    \/ select_ctrl_c
    \/ \E read_ok \in BOOLEAN, new_config \in LiveConfFiles : ConfigCheck(read_ok, new_config)
    \/ \E ifs \in LiveIfLists : Reconcile(ifs)
    \/ RunCheck
    \/ \E diff \in TickDeadlineDiffs : Tick(diff)
    \/ Teardown
    \/ Backoff

SpecSelect == InitSelect /\ [][NextSelect]_vars

\* ---- SpecConfig: set_local_config against concurrent readers ----
InitSpecConfig == InitNode /\ InitTickIdle /\ InitService(BaseConfig) /\ InitConc

NextConfig ==
    \/ \E t \in Readers : local_config_lock(t)
    \/ \E t \in Readers : local_config_clone(t)
    \/ \E t \in Readers : local_config_unlock(t)
    \/ \E t \in Readers : reader_read(t)
    \/ \E t \in Readers : reader_drop(t)
    \/ set_local_config_new
    \/ set_local_config_lock
    \/ set_local_config_store
    \/ set_local_config_unlock

SpecConfig == InitSpecConfig /\ [][NextConfig]_vars

\* ---- SpecRace: join, leave and drop against the engine's callbacks ----
InitSpecRace == InitNode /\ InitTickIdle /\ InitService(BaseConfig) /\ InitConc

\* The results of ZT_Node_join and ZT_Node_leave used as inputs.
RaceResultCodes == {0, 1000}

NextRace ==
    \/ \E nwid \in NetIds : join_insert(nwid)
    \/ \E rc \in RaceResultCodes, engine_keeps \in BOOLEAN : join_engine(rc, engine_keeps)
    \/ join_return
    \/ \E nwid \in NetIds : leave_delete(nwid)
    \/ \E op \in RawConfigOps : leave_engine_callback(op)
    \/ \E rc \in RaceResultCodes : leave_engine(rc)
    \/ DropCollect
    \/ DropDeleteNext
    \/ DropEngineDelete
    \/ \E nwid \in NetIds, nptr_is_null \in BOOLEAN :
          zt_virtual_network_frame_function(nwid, nptr_is_null)
    \/ \E nwid \in NetIds, op \in RawConfigOps :
          zt_virtual_network_config_function(nwid, op)
    \/ callback_return

SpecRace == InitSpecRace /\ [][NextRace]_vars

\* ---- SpecDispatch: the engine's callbacks with every discriminant ----
InitSpecDispatch == InitNode /\ InitTickIdle /\ InitService(BaseConfig) /\ InitConc

\* The one network the engine is made to call back for.
DispatchNetIds == {1}

NextDispatch ==
    \/ NodeNew(ZT_RESULT_OK, FALSE)
    \/ \E nwid \in DispatchNetIds : join_insert(nwid)
    \/ join_engine(ZT_RESULT_OK, FALSE)
    \/ join_return
    \/ \E nwid \in DispatchNetIds, op \in RawConfigOps :
          zt_virtual_network_config_function(nwid, op)
    \/ callback_return
    \/ \E ev \in RawEvents : zt_event_callback(ev)
    \/ \E obj_type \in RawStateObjectTypes, store_ok \in BOOLEAN :
          zt_state_put_function(obj_type, store_ok)
    \/ \E obj_type \in RawStateObjectTypes, obj_data_is_null \in BOOLEAN,
          free_fn_is_null \in BOOLEAN, slot_before \in SlotsBefore,
          malloc_ok \in BOOLEAN :
          zt_state_get_function(obj_type, obj_data_is_null, free_fn_is_null,
                                slot_before, malloc_ok)
    \/ \E sock_family \in RawFamilies, sock_addr_is_null \in BOOLEAN, found \in BOOLEAN :
          zt_path_lookup_function(sock_family, sock_addr_is_null, found)

SpecDispatch == InitSpecDispatch /\ [][NextDispatch]_vars

\* ---- SpecLookup: path_lookup against set_local_config ----
InitSpecLookup == InitNode /\ InitTickIdle /\ InitService(BaseConfig) /\ InitConc

NextLookup ==
    \/ \E address \in Addresses : path_lookup_snapshot(address)
    \/ \E rnd \in RandomValues : path_lookup_select(rnd)
    \/ \E v \in VirtualConfigs : set_local_config_virtual(v)

SpecLookup == InitSpecLookup /\ [][NextLookup]_vars

\* ---- SpecJoinLeave: join on one thread, leave on another ----
InitSpecJoinLeave == InitNode /\ InitTickIdle /\ InitService(BaseConfig) /\ InitConc

NextJoinLeave ==
    \/ \E nwid \in NetIds : join_insert(nwid)
    \/ \E rc \in RaceResultCodes, engine_keeps \in BOOLEAN : join_engine(rc, engine_keeps)
    \/ join_return
    \/ \E nwid \in NetIds : leave_thread_delete(nwid)
    \/ \E rc \in RaceResultCodes : leave_thread_engine(rc)

SpecJoinLeave == InitSpecJoinLeave /\ [][NextJoinLeave]_vars

\* ---- SpecIfaddrs: for_each_address for every list, run to its end ----
InitSpecIfaddrs ==
    /\ InitNode /\ InitTickIdle /\ InitService(BaseConfig)
    /\ InitConfig /\ InitRace /\ InitDispatch
    /\ InitLookup /\ InitStateGetIdle /\ InitClassifyIdle /\ InitLeaveThread
    /\ \E list \in IfaLists : InitIfaddrs(list)

NextIfaddrs ==
    \/ \E ok \in BOOLEAN : for_each_address_getifaddrs(ok)
    \/ for_each_address_iteration
    \/ for_each_address_free

\* The thread in for_each_address keeps running.
SpecIfaddrs == InitSpecIfaddrs /\ [][NextIfaddrs]_vars /\ WF_vars(NextIfaddrs)

\* ---- SpecStateGet: zt_state_get_function for every argument ----
InitSpecStateGet ==
    /\ InitNode /\ InitTickIdle /\ InitService(BaseConfig)
    /\ InitConfig /\ InitRace /\ InitDispatch /\ InitLookup /\ InitClassifyIdle
    /\ InitLeaveThread /\ InitIfaddrs(<<>>)
    /\ sg_args \in StateGetArgs
    /\ sg_ret = NotReturned

SpecStateGet == InitSpecStateGet /\ [][StateGet]_vars

\* ---- SpecClassify: the classification loop for every socket map ----
InitSpecClassify ==
    /\ InitNode /\ InitTickIdle /\ InitService(BaseConfig)
    /\ InitConfig /\ InitRace /\ InitDispatch /\ InitLookup /\ InitStateGetIdle
    /\ InitLeaveThread /\ InitIfaddrs(<<>>)
    /\ cl_args \in ClassifyArgs
    /\ cl_ret = NotClassified

SpecClassify == InitSpecClassify /\ [][Classify]_vars

---------------------------------------------------------------------------
\* Properties of the Node (SpecNode, SpecTick).

\* C1: after every join/leave call the registry holds an entry for X exactly
\* when the last call on X was a join the engine answered with OK; a failed
\* join leaves no entry, and a leave of an absent id leaves the registry (and
\* every box) as it was.
C1_RegistryIffLastJoinOk ==
    /\ [](node_pc = "ready" =>
            \A X \in NetIds :
                /\ (networks_by_id[X] # NullPtr) <=> (last_call[X] = "join_ok")
                /\ (last_call[X] = "join_failed") => (networks_by_id[X] = NullPtr))
    /\ [][\A X \in NetIds, rc \in RawResultCodes :
            (leave(X, rc) /\ networks_by_id[X] = NullPtr)
                => (networks_by_id' = networks_by_id /\ released' = released)]_vars

\* C1 witness: a failed join of one id after a successful join of it, while
\* another id went through join and leave.
C1_Witness ==
    /\ node_pc = "ready"
    /\ \E X, Y \in NetIds :
        /\ X # Y
        /\ last_call[X] = "join_failed" /\ networks_by_id[X] = NullPtr
        /\ last_call[Y] = "leave" /\ networks_by_id[Y] = NullPtr
        /\ next_handle > 3

\* C2: when ZT_Node_delete has run, the registry is empty, each of the N
\* pointers registered when drop began was released exactly once, drop made
\* exactly N releases, and no pointer is ever released twice; the registry is
\* already empty in the state from which ZT_Node_delete is called.
C2_DropReleasesEachOnce ==
    /\ \A h \in Handles : released[h] <= 1
    /\ (node_pc = "drop_loop" /\ drop_nwids = <<>>)
            => RegisteredIds(networks_by_id) = {}
    /\ capi = "deleted" =>
        /\ RegisteredIds(networks_by_id) = {}
        /\ \A h \in drop_registered : released[h] = 1
        /\ drop_releases = Cardinality(drop_registered)

\* C2 witness: the engine was deleted after a drop that began with two ids
\* registered.
C2_Witness ==
    /\ capi = "deleted"
    /\ Cardinality(drop_registered) = 2
    /\ drop_releases = 2

\* C3: process_background_tasks returns for every deadline, the delay is in
\* [1, 250], a deadline at or before the current time gives 1, a deadline more
\* than 250 after it gives 250, and any other gives deadline - now.
C3_DelayForEveryDeadline ==
    bt_status # "idle" =>
        /\ bt_status = "returned"
        /\ 1 <= bt_delay /\ bt_delay <= NODE_BACKGROUND_TASKS_MAX_INTERVAL
        /\ (bt_deadline <= bt_now) => (bt_delay = 1)
        /\ (bt_deadline > bt_now + NODE_BACKGROUND_TASKS_MAX_INTERVAL)
                => (bt_delay = NODE_BACKGROUND_TASKS_MAX_INTERVAL)
        /\ (bt_deadline > bt_now
                /\ bt_deadline <= bt_now + NODE_BACKGROUND_TASKS_MAX_INTERVAL)
                => (bt_delay = bt_deadline - bt_now)

\* C4: a Buffer passed to process_wire_packet or process_virtual_network_frame
\* went to the engine exactly once and Buffer::drop never ran for it, whatever
\* the result code.
C4_BufferHandedOnceNeverDropped ==
    \A b \in Buffers :
        buf_state[b] = "transferred" => (buf_handed[b] = 1 /\ buf_dropped[b] = 0)

\* C4 witness: two buffers were passed on, the last call through
\* process_virtual_network_frame with a code no ResultCode variant has.
C4_Witness ==
    /\ \A b \in Buffers : buf_state[b] = "transferred"
    /\ last_op.op = "process_virtual_network_frame"
    /\ last_rc = "ErrorInternalNonFatal"

---------------------------------------------------------------------------
\* Properties of run() (Spec).

\* The sockets bound at the primary port of the pass's configuration.
PrimarySockets == {a \in DOMAIN udp_sockets : a.port = last_cfg.primary_port}

\* The sockets bound at the secondary port of the pass's configuration.
SecondarySockets == {a \in DOMAIN udp_sockets : a.port \in last_cfg.secondary_port}

\* C5: the desired endpoint set of a pass is exactly the usable addresses of
\* devices not blacklisted, at the primary port and at the secondary port when
\* there is one; and after a pass no socket is left bound on a device the
\* pass's configuration blacklists (blacklisting the device of a bound
\* address makes the next pass close that socket).
C5_DesiredSetAndBlacklistClose ==
    /\ fresh => (DOMAIN system_addrs = DesiredEndpoints(last_ifaces, last_cfg))
    /\ fresh => \A a \in DOMAIN udp_sockets :
                    ~is_interface_blacklisted(last_cfg, udp_sockets[a])

\* C6, as claimed: the second of two consecutive passes with the same
\* interface list and configuration opens no socket and closes none,
\* whatever the binds of the first pass did.
C6_SecondPassNoOpenNoClose ==
    same_inputs => (opened = {} /\ closed = {})

\* C6, amended: the second of two consecutive passes with the same inputs
\* closes no socket, and opens sockets only at desired addresses the first
\* pass left unbound: none when the first pass bound every desired address.
C6_SecondPassOnlyRetries ==
    same_inputs => (closed = {} /\ opened \subseteq prev_unbound)

C6_Witness ==
    /\ same_inputs
    /\ prev_unbound = {}
    /\ DOMAIN udp_sockets # {}
    /\ opened = {} /\ closed = {}

C8_LogSizeNoRestartPortOnce ==
    /\ (config_change = "log_size_max") => (pc = "reconcile")
    /\ (config_change = "primary_port") => (pc = "teardown" /\ break_at = "port_change")
    /\ (pc \in {"wait", "check"}) =>
           (local_config.primary_port = service_local_config.primary_port)

C8_Witness ==
    /\ config_change = "log_size_max"
    /\ pc = "reconcile"
    /\ break_at = "port_change"
    /\ reconciled

\* C9: when a pass ends with no socket bound at the primary port, the inner
\* loop breaks in that pass (before the run check and the tick) if
\* auto_port_search is disabled, and goes on if it is enabled.
C9_PrimaryFailureBreaksUnlessAuto ==
    (fresh /\ PrimarySockets = {}) =>
        /\ ~last_cfg.auto_port_search =>
               (pc = "teardown" /\ break_at = "primary_port_bind_failure")
        /\ last_cfg.auto_port_search => (pc = "run_check")

C9_Witness ==
    /\ fresh
    /\ PrimarySockets = {}
    /\ attempted # {}
    /\ ~last_cfg.auto_port_search
    /\ pc = "teardown"

\* C10: a pass that ends with a socket bound at the primary port does not
\* break the inner loop, whether or not a socket is bound at the secondary
\* port; and a pass attempts the bind of every still desired address at the
\* secondary port that the pass before left unbound.
C10_SecondaryFailureNeverBreaks ==
    /\ (fresh /\ PrimarySockets # {}) => (pc = "run_check")
    /\ fresh =>
           ({a \in prev_unbound \cap DOMAIN system_addrs :
                 a.port \in last_cfg.secondary_port} \subseteq attempted)

C10_Witness ==
    /\ fresh
    /\ pc = "run_check"
    /\ last_cfg.secondary_port # {}
    /\ PrimarySockets # {}
    /\ SecondarySockets = {}
    /\ {a \in prev_unbound : a.port \in last_cfg.secondary_port} # {}
    /\ ~last_cfg.auto_port_search

\* C11: when the bind of the control listener fails at the top of the outer
\* loop, run() leaves the loops at once, without a serving cycle, and the
\* exit value it returns is not zero.
C11_ListenerBindFailureExitsNonZero ==
    (break_at = "listener_bind_failure") =>
        /\ pc = "done"
        /\ warp_server # "running"
        /\ process_exit_value # 0

\* C12: when ZT_Node_new gives a status other than 0, or status 0 with a null
\* instance, Node::new is an error and run() has returned exit value 1 with
\* no control listener bound, no socket opened, no pass made and no loop
\* entered.
C12_NodeNewFailureExitsOne ==
    (node_new_call.called /\ (node_new_call.rc # 0 \/ node_new_call.capi_is_null)) =>
        /\ ~node_new_call.ok
        /\ pc = "done"
        /\ process_exit_value = 1
        /\ warp_server = "none"
        /\ DOMAIN udp_sockets = {}
        /\ ~reconciled
        /\ break_at = "none"

C12_Witness ==
    /\ node_new_call.called
    /\ node_new_call.rc = 0
    /\ node_new_call.capi_is_null
    /\ pc = "done"
    /\ process_exit_value = 1

\* The model's clock leaves room for the backoff pause.
RoomForBackoff == (pc = "backoff") => (clock + BackoffMillis <= MaxClock)

C14_NoNewCycleAfterClear ==
    /\ (~run /\ pc = "tick") => (cleared_at = "tick")
    /\ ~(~run /\ cleared_at = "tick" /\ pc = "wait")
    /\ ~(~run /\ cleared_at \in {"wait", "tick"} /\ config_change # "none")
    /\ ~(~run /\ cleared_at \in {"wait", "tick"} /\ fresh
            /\ (opened # {} \/ closed # {}))

\* C15: at most one control listener is live at any time: the teardown
\* signals the current one and awaits its task, so none is live during the
\* backoff pause and at the top of the outer loop, where the next is bound;
\* and the outer loop is started again only from the backoff pause, with the
\* run flag set and one second later.
C15_OneListenerAndBackoff ==
    /\ [](live_listeners <= 1)
    /\ []((pc \in {"backoff", "start"}) => (live_listeners = 0))
    /\ [][(pc = "teardown" /\ pc' # "teardown") =>
            (live_listeners' = 0 /\ pc' = IF run THEN "backoff" ELSE "done")]_vars
    /\ [][(pc' = "start" /\ pc \notin {"start", "node_new"}) =>
            (pc = "backoff" /\ run /\ clock' = clock + BackoffMillis)]_vars

C15_Witness ==
    /\ pc = "wait"
    /\ break_at \in {"port_change", "primary_port_bind_failure"}
    /\ warp_server = "running"
    /\ live_listeners = 1
    /\ clock >= StartClock + BackoffMillis

---------------------------------------------------------------------------
\* Further properties of the Node (SpecNode).

\* The pointers Box::into_raw has returned so far.
BoxedHandles == 1..(next_handle - 1)

\* C18: no handle is released twice; between calls every handle boxed by a
\* join and not yet released is the entry of an id (an id is not registered
\* again over an entry it still has); and after the drop of the Node every
\* handle boxed by a join has been released exactly once.
C18_EveryHandleReleasedOnce ==
    /\ \A h \in Handles : released[h] <= 1
    /\ (node_pc = "ready") =>
           (\A h \in BoxedHandles :
                (released[h] = 0) => (h \in RegisteredPtrs(networks_by_id)))
    /\ (capi = "deleted") => (\A h \in BoxedHandles : released[h] = 1)

---------------------------------------------------------------------------
\* Properties of the configuration snapshot (SpecConfig).

\* C16: the Mutex always holds one live, complete snapshot; the Arc a reader
\* obtained stays live and holds the fields of the one set_local_config call
\* (or the initial value) that made it, whatever is installed afterwards; and
\* the fields a reader has read are fields of that one snapshot.
C16_ReadersSeeOneSnapshot ==
    /\ arc_state[mutex_ptr] = "live"
    /\ arc_val[mutex_ptr] = Snapshot(mutex_ptr)
    /\ \A t \in Readers :
          (rd_ptr[t] # NoArc) =>
              /\ rd_ptr[t] \in 0..installs
              /\ arc_state[rd_ptr[t]] = "live"
              /\ arc_val[rd_ptr[t]] = Snapshot(rd_ptr[t])
              /\ \A i \in 1..Len(rd_seen[t]) :
                     rd_seen[t][i] = FieldsOf(Snapshot(rd_ptr[t]))[i]

C16_Witness ==
    /\ rd_ptr[1] = 0
    /\ Len(rd_seen[1]) = 2
    /\ mutex_ptr >= 2
    /\ arc_refs[0] = 1
    /\ wr_pc = "idle"

---------------------------------------------------------------------------
\* Properties of the callbacks against join, leave and drop (SpecRace).

\* C17: while a frame or network-config handler is using the &Arc<N> it was
\* given for network X, the handle behind it has not been released: no
\* delete_network_uptr of leave(X) or of drop has run Box::from_raw on it.
C17_CallbackHandleNotReleased ==
    (cb_pc = "handler") => released[cb_nptr] = 0

\* C19: virtual_network_frame is invoked only for a network id that has an
\* entry in networks_by_id at that moment.
C19_FrameForUnregisteredDropped ==
    (cb_pc = "handler" /\ cb_kind = "frame") => cb_registered

---------------------------------------------------------------------------
\* Properties of the dispatch of callbacks (SpecDispatch).

\* The codes the function of the last callback decodes to a variant.
KnownCodes(fn) ==
    CASE fn = "config" -> ConfigOpCodes
      [] fn = "event" -> EventCodes
      [] fn = "state_put" -> StateObjectTypeCodes
      [] fn = "state_get" -> StateObjectTypeCodes
      [] fn = "path_lookup" -> FamilyCodes
      [] OTHER -> {}

\* The step is a callback whose discriminant no variant has.
UnknownCallback == dp_tick' # dp_tick /\ dp_last'.code \notin KnownCodes(dp_last'.fn)

\* What every callback with an unknown discriminant does: the handler is not
\* invoked, nothing of the host changes, and state-load answers -1,
\* path-lookup 0.
IgnoredCallback ==
    /\ ~dp_last'.handler
    /\ UNCHANGED <<nodeVars, tickVars, serviceVars, cfgVars, raceVars, store_objs, moreVars>>
    /\ (dp_last'.fn = "state_get") => dp_last'.result = -1
    /\ (dp_last'.fn = "path_lookup") => dp_last'.result = 0

\* C20 as stated: a callback whose discriminant decodes to no variant is
\* ignored: handler not invoked, no host state changed; state-load with an
\* unknown type answers -1 and leaves a null data pointer in every call;
\* path-lookup with another address family answers 0.
C20_UnknownDiscriminantIgnoredNullData ==
    [][UnknownCallback =>
          /\ IgnoredCallback
          /\ (dp_last'.fn = "state_get") => dp_last'.data \in {"null", "none"}]_vars

\* C20, amended: the same, with the data pointer null after a state-load in
\* which the engine passed both out-pointers; when obj_data or the
\* free-function pointer is null the answer is -1 and *obj_data is not written.
C20_UnknownDiscriminantIgnored ==
    [][UnknownCallback =>
          /\ IgnoredCallback
          /\ (dp_last'.fn = "state_get" /\ dp_last'.ptrs_ok) => dp_last'.data = "null"
          /\ (dp_last'.fn = "state_get" /\ ~dp_last'.ptrs_ok) => dp_last'.data # "buf"]_vars

C20_Witness ==
    /\ dp_last.fn = "state_get"
    /\ dp_last.code \notin StateObjectTypeCodes
    /\ dp_last.result = -1
    /\ dp_last.ptrs_ok
    /\ dp_last.data = "null"
    /\ ~run
    /\ store_objs # {}

---------------------------------------------------------------------------
\* Properties of path_lookup (SpecLookup).

\* C21: a lookup that has returned gave None when the snapshot it took has
\* no entry for the address or an empty try_ list, and otherwise Some of an
\* element of that entry's list, the list of the one snapshot it took,
\* whatever snapshot has been installed since and whatever random() gave.
C21_LookupReturnsMemberOfSnapshot ==
    (pl_pc = "returned") =>
        /\ pl_lc \in VirtualConfigs
        /\ IF pl_address \notin DOMAIN pl_lc THEN pl_result = {}
           ELSE IF pl_lc[pl_address] = <<>> THEN pl_result = {}
           ELSE /\ Cardinality(pl_result) = 1
                /\ pl_result \subseteq Elements(pl_lc[pl_address])

C21_Witness ==
    /\ pl_pc = "returned"
    /\ pl_address \in DOMAIN pl_lc
    /\ Len(pl_lc[pl_address]) = 3
    /\ pl_result = {"C"}
    /\ virtual_ # pl_lc
    /\ pl_address \notin DOMAIN virtual_

---------------------------------------------------------------------------
\* Further properties of run() (Spec).

\* C22: a config check whose read of the persisted configuration fails
\* leaves the current snapshot, the loop's snapshot and the log settings as
\* they were, breaks no loop and goes on to the reconciliation; and the
\* reconciliation that follows works from that same, previous snapshot.
C22_FailedReadKeepsSnapshot ==
    [][/\ (pc = "check" /\ read_failed') =>
            /\ service_local_config' = service_local_config
            /\ local_config' = local_config
            /\ local_config' = service_local_config'
            /\ UNCHANGED <<break_at, log_max_size, log_stderr, udp_sockets>>
            /\ pc' = "reconcile"
       /\ (pc = "reconcile" /\ read_failed /\ pc' # pc) =>
            /\ fresh'
            /\ last_cfg' = service_local_config
            /\ UNCHANGED <<service_local_config, local_config>>]_vars

C22_Witness ==
    /\ pc = "reconcile"
    /\ read_failed
    /\ reconciled
    /\ service_local_config # BaseConfig
    /\ udp_sockets # EmptyMap

\* C23: while the run flag is set, no second wait is begun before
\* process_background_tasks has been invoked: one wait precedes the first
\* invocation and one wait lies between two consecutive invocations, for
\* every interface list, configuration and outcome of the binds.
C23_OneWaitBetweenTicks ==
    run => waits_since_tick <= 1

---------------------------------------------------------------------------
\* Properties of zt_state_get_function (SpecStateGet).

\* The call was made with both out-pointers and a type that decodes.
HandlerAsked ==
    /\ ~sg_args.obj_data_is_null
    /\ ~sg_args.free_fn_is_null
    /\ StateObjectType_from_i32(sg_args.obj_type) # "None"

\* C24: with a null out-pointer the call returns -1 and the handler is not
\* invoked; when the handler answers an error or an empty payload the call
\* returns -1 with *obj_data null; it returns the length of the payload,
\* with *obj_data a fresh allocation holding all of it, exactly when the
\* handler answers a non-empty payload and the allocation succeeds, and -1
\* with *obj_data null otherwise.
C24_StateLoadAbsenceOrWholePayload ==
    (sg_ret.status = "returned") =>
        /\ (sg_args.obj_data_is_null \/ sg_args.free_fn_is_null) =>
               (sg_ret.result = -1 /\ ~sg_ret.handler)
        /\ HandlerAsked =>
               /\ sg_ret.handler
               /\ (sg_args.load <= 0) => (sg_ret.result = -1 /\ sg_ret.data = "null")
               /\ IF sg_args.load > 0 /\ sg_ret.allocated
                  THEN /\ sg_ret.result = sg_args.load
                       /\ sg_ret.copied = sg_args.load
                       /\ sg_ret.data = "buf"
                  ELSE sg_ret.result = -1 /\ sg_ret.data = "null"

---------------------------------------------------------------------------
\* Properties of Service::event (SpecDispatch).

\* An event callback has just handed the event e to Service::event.
EventDelivered(e) ==
    /\ dp_tick' # dp_tick
    /\ dp_last'.fn = "event"
    /\ dp_last'.handler
    /\ Event_from_i32(dp_last'.code) = e

\* C25: the online flag is false initially, true after Event::Online and
\* false after Event::Offline; the run flag is cleared by Event::Down and
\* by no other event; Event::Up, Event::Trace and Event::UserMessage leave
\* both flags as they were.
C25_FlagsFollowEvents ==
    /\ ~online
    /\ [][/\ EventDelivered("Online") => (online' /\ run' = run)
          /\ EventDelivered("Offline") => (~online' /\ run' = run)
          /\ EventDelivered("Down") => (~run' /\ online' = online)
          /\ \A e \in {"Up", "Trace", "UserMessage"} :
                EventDelivered(e) => UNCHANGED <<run, online>>]_vars

---------------------------------------------------------------------------
\* Properties of the logger settings (Spec).

\* The inner loop is running and has done a config check since it started:
\* last_checked_config is 0 from the start of a serving period to its first
\* check.
ServingAfterConfigCheck ==
    /\ pc \in {"reconcile", "run_check", "tick", "wait"}
    /\ last_checked_config # 0

\* C26: whenever the loop is serving and has completed a config check, the
\* logger's maximum size and its stderr setting are those of the current
\* snapshot, also after a reload that changed the primary port and a log
\* setting together.
C26_LoggerFollowsSnapshot ==
    ServingAfterConfigCheck =>
        /\ log_max_size = service_local_config.log_size_max
        /\ log_stderr = service_local_config.log_to_stderr

---------------------------------------------------------------------------
\* Properties of the classification loop (SpecClassify).

\* The ports of the sockets the loop was given.
SocketPorts == {cl_args.socks[i].port : i \in 1..Len(cl_args.socks)}

\* C27: after the classification loop primary_port_bind_failure is false
\* exactly when some socket is at the primary port, and
\* secondary_port_bind_failure is false exactly when no secondary port is
\* configured or some socket is at the secondary port, whatever the order
\* of the sockets and wherever the loop left early; the loop does not
\* panic.
C27_BindFailureFlagsExact ==
    (cl_ret.status = "returned") =>
        /\ ~cl_ret.panic
        /\ ~cl_ret.primary <=> (cl_args.cfg.primary_port \in SocketPorts)
        /\ ~cl_ret.secondary <=>
               \/ cl_args.cfg.secondary_port = {}
               \/ cl_args.cfg.secondary_port \cap SocketPorts # {}

\* The loop left at the first socket although more followed, with primary
\* and secondary port the same.
C27_Witness ==
    /\ cl_ret.status = "returned"
    /\ cl_args.cfg.secondary_port = {cl_args.cfg.primary_port}
    /\ Len(cl_args.socks) >= 2
    /\ ~cl_ret.primary /\ ~cl_ret.secondary

---------------------------------------------------------------------------
\* Properties of loop_delay (Spec).

\* C28: loop_delay is within 1..NODE_BACKGROUND_TASKS_MAX_INTERVAL in every
\* state: it starts at the maximum interval, changes only in the step that
\* calls process_background_tasks, so not in a restart; a cycle gets to that
\* step only from its run check, which follows the reconciliation, and
\* leaves it for the next wait, whose timer does not fire before loop_delay
\* has passed.
C28_LoopDelayInRange ==
    /\ loop_delay = NODE_BACKGROUND_TASKS_MAX_INTERVAL
    /\ [](loop_delay \in 1..NODE_BACKGROUND_TASKS_MAX_INTERVAL)
    /\ [][/\ (loop_delay' # loop_delay) => (pc = "tick" /\ pc' = "wait")
          /\ (pc = "tick" /\ pc' # pc) => (pc' = "wait" /\ waits_since_tick' = 0)
          /\ (pc' = "tick" /\ pc # "tick") => (pc = "run_check" /\ run)
          /\ (pc = "run_check" /\ pc' # pc /\ run) => pc' = "tick"
          /\ (pc = "reconcile" /\ pc' # pc) => pc' \in {"run_check", "teardown", "panicked"}
          /\ (pc = "wait" /\ clock' # clock) => (clock' - clock >= loop_delay)]_vars

\* A restart under way with a delay the engine shortened.
C28_Witness == pc = "backoff" /\ run /\ loop_delay = 1

---------------------------------------------------------------------------
\* Properties of the config-check interval (Spec).

\* The step is a config-check pass: the interval test at the top of the
\* cycle passed.
ConfigCheckPass == pc = "check" /\ pc' \in {"reconcile", "teardown"}

\* C29: any two consecutive config-check passes are at least
\* CONFIG_CHECK_INTERVAL apart, also with a restart of the inner loop
\* between them, and the first cycle of a serving period performs a check.
C29_ChecksAtLeastIntervalApart ==
    [][/\ (ConfigCheckPass /\ prev_check # 0) =>
             (now - prev_check >= CONFIG_CHECK_INTERVAL)
       /\ (pc = "check" /\ last_checked_config = 0 /\ pc' # pc) => ConfigCheckPass]_vars

---------------------------------------------------------------------------
\* Properties of the handle of a config callback (SpecRace).

\* C30: the handle given to a network-config callback has not been released
\* while the callback runs, for a callback of the engine's thread and for
\* the callback the engine makes from inside ZT_Node_leave during leave(X):
\* leave has not released X's handle when the engine uses it.
C30_ConfigCallbackHandleLive ==
    /\ (cb_pc = "handler" /\ cb_kind = "config") => released[cb_nptr] = 0
    /\ (api_pc = "leave_callback") => released[engine_uptr[api_nwid]] = 0

---------------------------------------------------------------------------
\* Properties of join and leave on two threads (SpecJoinLeave).

\* The step is the call of ZT_Node_join.
EngineHandedPointer == api_pc = "join_inserted" /\ api_pc' = "join_called"

\* One join and one leave have been made, of the same network nwid, and both
\* have returned.
BothReturned(nwid) ==
    /\ api_pc = "idle" /\ lv_pc = "idle"
    /\ next_handle = 2 /\ lv_calls = 1
    /\ lv_nwid = nwid

\* C31: with join(X) and leave(X) on two threads the engine is never handed
\* in ZT_Node_join a pointer to a handle already released, no handle is
\* released twice, and when both calls have returned the registry has an
\* entry for X only if the engine has the same handle for X, not released.
C31_JoinLeaveInterleavingsSafe ==
    /\ [][EngineHandedPointer => released[api_nptr] = 0]_vars
    /\ [](\A h \in Handles : released[h] <= 1)
    /\ [](\A nwid \in NetIds :
            (BothReturned(nwid) /\ networks_by_id[nwid] # NullPtr) =>
                /\ engine_uptr[nwid] = networks_by_id[nwid]
                /\ released[networks_by_id[nwid]] = 0)

---------------------------------------------------------------------------
\* Properties of for_each_address (SpecIfaddrs).

\* C32: for_each_address terminates for every finite list, visiting each
\* entry at most once; it has then called f once for each entry with an
\* IPv4 or IPv6 address and a UTF-8 name and not at all for the others, and,
\* when getifaddrs gave a list, has freed it.
C32_ForEachAddressTerminates ==
    /\ <>(ifa_pc = "done")
    /\ [](\A k \in 1..Len(ifa_list) : ifa_visits[k] <= 1)
    /\ [](ifa_pc = "done" =>
            /\ (ifa_i # 0) => ifa_freed
            /\ \A k \in 1..Len(ifa_list) :
                  ifa_f[k] = IF ifa_i # 0 /\ calls_f(ifa_list[k]) THEN 1 ELSE 0)

---------------------------------------------------------------------------
\* Properties of the wait (SpecSelect).

\* C33: when the termination signal is ready together with the timer or the
\* interrupt channel, the wait is left by the termination branch: the run
\* flag is cleared and the inner loop is left for the teardown, with no
\* config check, reconciliation or tick.
C33_TerminationWinsWhenReady ==
    [][(/\ pc = "wait"
        /\ "ctrl_c" \in sel_ready
        /\ sel_ready \cap {"timer", "interrupt"} # {}
        /\ pc' # pc) =>
            (pc' = "teardown" /\ ~run' /\ break_at' = "ctrl_c")]_vars

---------------------------------------------------------------------------
\* Properties of the pass with no secondary port (Spec).

\* C34: a reconciliation pass does not reach secondary_port.unwrap() when no
\* secondary port is configured, so it does not panic: every socket the
\* diff leaves in udp_sockets is at the primary port, and the loop leaves
\* at the first of them with the primary flag cleared and the secondary
\* flag false as it started.
C34_NoSecondaryNoUnwrap ==
    /\ pc # "panicked"
    /\ (fresh /\ local_config.secondary_port = {}) =>
           /\ \A a \in DOMAIN udp_sockets : a.port = local_config.primary_port
           /\ primary_port_bind_failure = (udp_sockets = EmptyMap)
           /\ ~secondary_port_bind_failure

\* A pass without a secondary port that closed the sockets of the port the
\* configuration had before and has left sockets bound.
C34_Witness ==
    /\ fresh
    /\ local_config.secondary_port = {}
    /\ udp_sockets # EmptyMap
    /\ \E a \in closed : a.port # local_config.primary_port

====
